---- MODULE Spec2Model ----
(***************************************************************************)
(* Model of the arbitrary-precision integer layer (struct ha_int) and of   *)
(* the fraction layer (struct ha_frac) built on it, of the matrix          *)
(* calculator.  An ha_int is a sign flag and a C string of decimal         *)
(* digit characters stored least-significant digit first.  Characters are  *)
(* modelled by their ASCII codes and C strings by sequences of codes (the  *)
(* terminating NUL is implicit: strlen is Len).  C index i is TLA+ index   *)
(* i + 1.                                                                  *)
(***************************************************************************)
EXTENDS Integers, Sequences, FiniteSets

VARIABLES n, m, op, ret, flag, s, live, out, fn, fm, fret, t, aborted, fcmp,
          cn, cm, cret, cread, fun, pc, env, mem, brk, res, fault

vars == <<n, m, op, ret, flag, s, live, out, fn, fm, fret, t, aborted, fcmp,
          cn, cm, cret, cread, fun, pc, env, mem, brk, res, fault>>

\* the client's variables of the fraction layer
fracvars == <<fn, fm, fret, t, aborted, fcmp>>

\* the client's variables of the complex layer
compvars == <<cn, cm, cret, cread>>

\* the storage of one call: the function, its position, its pointer
\* variables and the blocks of the heap
memvars == <<fun, pc, env, mem, brk, res, fault>>

\* the client's variables of the integer layer
intvars == <<n, m, ret, flag>>

\* the values of the three layers, which a look at the storage leaves alone
valvars == <<n, m, op, ret, flag, s, live, out, fn, fm, fret, t, aborted,
             fcmp, cn, cm, cret, cread>>

(* ----------------------------- bounds ---------------------------------- *)

\* longest string handed to ha_int_create
MaxStrLen == 3

\* largest magnitude of a result that the client keeps as a later operand
MaxAbs == 34

(* --------------------------- characters -------------------------------- *)

ChMinus == 45
Ch0 == 48
Ch1 == 49
Ch9 == 57
ChA == 97
ChSlash == 47
ChPlus == 43
ChLParen == 40
ChRParen == 41
ChI == 105
ChNul == 0

\* characters the client builds its input strings from: the sign, the digits
\* at both ends of the ranges ha_int_create tests, their neighbours in the
\* character set, and a letter
Chars == {ChMinus, Ch0 - 1, Ch0, Ch1, Ch9, Ch9 + 1, ChA}

Strings == UNION {[1..k -> Chars] : k \in 0..MaxStrLen}

\* the null pointer
NULL == [null |-> TRUE]

(* ------------------------ struct ha_int helpers ------------------------ *)

ha_int(sign, digits) == [sign |-> sign, digits |-> digits]

max(a, b) == IF a >= b THEN a ELSE b

get_digit(str, len, pos) == IF pos >= len THEN 0 ELSE str[pos + 1] - Ch0

RECURSIVE rlz_len(_, _)
rlz_len(num, len) ==
  IF num[len] = Ch0 /\ len > 1 THEN rlz_len(num, len - 1) ELSE len

\* mutant: trims one redundant zero at most
remove_leading_zeros_once(num) ==
  SubSeq(num, 1, IF num[Len(num)] = Ch0 /\ Len(num) > 1
                 THEN Len(num) - 1 ELSE Len(num))

remove_leading_zeros(num) == SubSeq(num, 1, rlz_len(num, Len(num)))

init_new_int(len) == [i \in 1..len |-> Ch0]

is_zero(x) == Len(x.digits) = 1 /\ x.digits[1] = Ch0

(* ------------------------------ create --------------------------------- *)

\* mutant: the digit after '-' is tested against '0', so "-0" is accepted
ha_int_create_negzero(str) ==
  LET s_len == Len(str)
      neg == s_len > 0 /\ str[1] = ChMinus
      s_idx == IF neg THEN 1 ELSE 0
      digit_num == s_len - s_idx
  IN IF s_len = 0 THEN NULL
     ELSE IF neg /\ (s_len = 1 \/ str[2] < Ch0 \/ str[2] > Ch9) THEN NULL
     ELSE IF str[1] = Ch0 /\ s_len > 1 THEN NULL
     ELSE IF \E i \in s_idx..(s_len - 1) : str[i + 1] < Ch0 \/ str[i + 1] > Ch9
          THEN NULL
     ELSE ha_int(~neg, [j \in 1..digit_num |-> str[s_len - j + 1]])

ha_int_create(str) ==
  LET s_len == Len(str)
      neg == s_len > 0 /\ str[1] = ChMinus
      s_idx == IF neg THEN 1 ELSE 0
      digit_num == s_len - s_idx
  IN IF s_len = 0 THEN NULL
     ELSE IF neg /\ (s_len = 1 \/ str[2] < Ch1 \/ str[2] > Ch9) THEN NULL
     ELSE IF str[1] = Ch0 /\ s_len > 1 THEN NULL
     ELSE IF \E i \in s_idx..(s_len - 1) : str[i + 1] < Ch0 \/ str[i + 1] > Ch9
          THEN NULL
     ELSE ha_int(~neg, [j \in 1..digit_num |-> str[s_len - j + 1]])

ha_int_copy(x) == ha_int(x.sign, x.digits)

\* mutant: the '-' of a negative value is not written
ha_int_to_str_nosign(x) ==
  [i \in 1..Len(x.digits) |-> x.digits[Len(x.digits) - i + 1]]

ha_int_to_str(x) ==
  LET dlen == Len(x.digits)
      len == IF ~x.sign THEN dlen + 1 ELSE dlen
      front_idx == IF ~x.sign THEN 1 ELSE 0
  IN [i \in 1..len |->
        IF i = 1 /\ ~x.sign THEN ChMinus
        ELSE x.digits[(dlen - 1) - ((i - 1) - front_idx) + 1]]

(* ---------------------------- comparison ------------------------------- *)

ha_int_eq(x, y) ==
  IF x.sign # y.sign THEN FALSE
  ELSE IF Len(x.digits) # Len(y.digits) THEN FALSE
  ELSE ~ \E i \in 0..(Len(x.digits) - 1) : x.digits[i + 1] # y.digits[i + 1]

RECURSIVE abs_gt_loop(_, _, _)
abs_gt_loop(x, y, i) ==
  IF i < 0 THEN FALSE
  ELSE IF x.digits[i + 1] > y.digits[i + 1] THEN TRUE
  ELSE IF x.digits[i + 1] < y.digits[i + 1] THEN FALSE
  ELSE abs_gt_loop(x, y, i - 1)

abs_gt(x, y) ==
  LET n_len == Len(x.digits)
      m_len == Len(y.digits)
  IN IF n_len > m_len THEN TRUE
     ELSE IF n_len < m_len THEN FALSE
     ELSE abs_gt_loop(x, y, n_len - 1)

\* mutant: two negative values are compared like two positive ones
ha_int_gt_neg(x, y) ==
  IF x.sign /\ ~y.sign THEN TRUE
  ELSE IF ~x.sign /\ y.sign THEN FALSE
  ELSE abs_gt(x, y)

ha_int_gt(x, y) ==
  IF x.sign /\ ~y.sign THEN TRUE
  ELSE IF ~x.sign /\ y.sign THEN FALSE
  ELSE IF x.sign THEN abs_gt(x, y)
  ELSE abs_gt(y, x)

(* ------------------------ magnitude arithmetic ------------------------- *)

RECURSIVE abs_add_loop(_, _, _, _, _)
abs_add_loop(x, y, j, carry, digits) ==
  IF j >= Len(digits) THEN digits
  ELSE LET sum == carry + get_digit(y.digits, Len(y.digits), j)
                        + get_digit(x.digits, Len(x.digits), j)
       IN abs_add_loop(x, y, j + 1, sum \div 10,
                       [digits EXCEPT ![j + 1] = (sum % 10) + Ch0])

abs_add(x, y) ==
  LET new_int_len == max(Len(x.digits), Len(y.digits)) + 1
  IN ha_int(TRUE, remove_leading_zeros(
                    abs_add_loop(x, y, 0, 0, init_new_int(new_int_len))))

RECURSIVE abs_sub_loop(_, _, _, _, _)
abs_sub_loop(big, small, i, carry, digits) ==
  IF i >= Len(digits) THEN digits
  ELSE LET raw == carry + get_digit(big, Len(big), i)
                        - get_digit(small, Len(small), i)
           sub == IF raw < 0 THEN raw + 10 ELSE raw
           nc == IF raw < 0 THEN -1 ELSE 0
       IN abs_sub_loop(big, small, i + 1, nc,
                       [digits EXCEPT ![i + 1] = (sub % 10) + Ch0])

abs_big_sub_small(x, y) ==
  LET new_int_len == max(Len(x.digits), Len(y.digits))
      big == IF abs_gt(x, y) THEN x.digits ELSE y.digits
      small == IF abs_gt(x, y) THEN y.digits ELSE x.digits
  IN ha_int(TRUE, remove_leading_zeros(
                    abs_sub_loop(big, small, 0, 0, init_new_int(new_int_len))))

(* ------------------------- add and subtract ---------------------------- *)

\* mutant: the sign is not set when the second operand has the larger
\* magnitude
ha_int_add_sign(x, y) ==
  IF x.sign = y.sign
  THEN ha_int(x.sign, abs_add(x, y).digits)
  ELSE LET new_int == abs_big_sub_small(x, y)
       IN IF abs_gt(x, y)
          THEN (IF ~x.sign THEN ha_int(FALSE, new_int.digits) ELSE new_int)
          ELSE new_int

ha_int_add(x, y) ==
  IF x.sign = y.sign
  THEN ha_int(x.sign, abs_add(x, y).digits)
  ELSE LET new_int == abs_big_sub_small(x, y)
       IN IF abs_gt(x, y)
          THEN (IF ~x.sign THEN ha_int(FALSE, new_int.digits) ELSE new_int)
          ELSE IF abs_gt(y, x)
          THEN (IF x.sign THEN ha_int(FALSE, new_int.digits) ELSE new_int)
          ELSE new_int

\* mutant: with different signs the result takes the sign of the second
\* operand
ha_int_sub_sign(x, y) ==
  IF x.sign # y.sign
  THEN ha_int(y.sign, abs_add(x, y).digits)
  ELSE LET new_int == abs_big_sub_small(x, y)
       IN IF abs_gt(x, y)
          THEN (IF ~x.sign THEN ha_int(FALSE, new_int.digits) ELSE new_int)
          ELSE IF abs_gt(y, x)
          THEN (IF x.sign THEN ha_int(FALSE, new_int.digits) ELSE new_int)
          ELSE new_int

ha_int_sub(x, y) ==
  IF x.sign # y.sign
  THEN ha_int(x.sign, abs_add(x, y).digits)
  ELSE LET new_int == abs_big_sub_small(x, y)
       IN IF abs_gt(x, y)
          THEN (IF ~x.sign THEN ha_int(FALSE, new_int.digits) ELSE new_int)
          ELSE IF abs_gt(y, x)
          THEN (IF x.sign THEN ha_int(FALSE, new_int.digits) ELSE new_int)
          ELSE new_int

(* --------------------------- multiplication ---------------------------- *)

\* mutant: zero operands are not singled out
mult_div_sign_nozero(x, y) == x.sign = y.sign

mult_div_sign(x, y) ==
  IF is_zero(x) \/ is_zero(y) THEN TRUE
  ELSE IF x.sign = y.sign THEN TRUE
  ELSE FALSE

RECURSIVE mult_inner(_, _, _, _, _, _)
mult_inner(x, y, i, j, carry, digits) ==
  IF j >= Len(y.digits) THEN [digits |-> digits, carry |-> carry]
  ELSE LET mult == get_digit(x.digits, Len(x.digits), i)
                     * get_digit(y.digits, Len(y.digits), j)
                   + get_digit(digits, Len(digits), i + j) + carry
       IN mult_inner(x, y, i, j + 1, mult \div 10,
                     [digits EXCEPT ![i + j + 1] = (mult % 10) + Ch0])

RECURSIVE mult_outer(_, _, _, _)
mult_outer(x, y, i, digits) ==
  IF i >= Len(x.digits) THEN digits
  ELSE LET row == mult_inner(x, y, i, 0, 0, digits)
       IN mult_outer(x, y, i + 1,
            [row.digits EXCEPT ![Len(y.digits) + i + 1] = row.carry + Ch0])

\* mutant: the sign of the product is the sign of the first operand
ha_int_mult_asym(x, y) ==
  LET new_int_len == Len(x.digits) + Len(y.digits)
  IN ha_int(x.sign,
            remove_leading_zeros(mult_outer(x, y, 0, init_new_int(new_int_len))))

ha_int_mult(x, y) ==
  LET new_int_len == Len(x.digits) + Len(y.digits)
  IN ha_int(mult_div_sign(x, y),
            remove_leading_zeros(mult_outer(x, y, 0, init_new_int(new_int_len))))

(* ------------------------ quotient and remainder ----------------------- *)

\* the while loop of ha_int_quotient: subtract the scaled divisor from the
\* running dividend while the divisor is not bigger; heap counts the live
\* heap blocks (each ha_int is two blocks: the struct and its digits)
RECURSIVE quot_sub_loop(_, _, _, _)
\* mutant: the loop also stops when the dividend equals the scaled divisor
quot_sub_loop_ge(dividend, modified_divisor, quotient, heap) ==
  IF ~abs_gt(dividend, modified_divisor)
  THEN [dividend |-> dividend, quotient |-> quotient, heap |-> heap]
  ELSE quot_sub_loop(ha_int_sub(dividend, modified_divisor), modified_divisor,
                     quotient + 1, (heap + 2) - 2)

quot_sub_loop(dividend, modified_divisor, quotient, heap) ==
  IF abs_gt(modified_divisor, dividend)
  THEN [dividend |-> dividend, quotient |-> quotient, heap |-> heap]
  ELSE quot_sub_loop(ha_int_sub(dividend, modified_divisor), modified_divisor,
                     quotient + 1, (heap + 2) - 2)

\* the for loop of ha_int_quotient, one iteration per quotient digit
RECURSIVE quot_loop(_, _, _, _, _, _, _, _)
\* the end of one iteration (lines 486-491): w is what the while loop left
quot_loop_next(x, y, i, idx, dividend_len, digits, w) ==
  quot_loop(x, y, i + 1, idx + 1, dividend_len - 1, w.dividend,
            [digits EXCEPT ![idx + 1] = w.quotient + Ch0],
            w.heap - 2)

quot_loop(x, y, i, idx, dividend_len, dividend, digits, heap) ==
  IF i > Len(x.digits)
  THEN [digits |-> digits, idx |-> idx, dividend |-> dividend, heap |-> heap]
  ELSE LET len_differ == dividend_len - Len(y.digits)
           ten_to_power == [j \in 1..(len_differ + 1) |->
                              IF j = 1 THEN Ch1 ELSE Ch0]
           multiplier == ha_int_create(ten_to_power)
           modified_divisor == ha_int(TRUE, ha_int_mult(y, multiplier).digits)
           heap1 == ((((heap + 1) + 2) - 1) + 2) - 2
       IN quot_loop_next(x, y, i, idx, dividend_len, digits,
                         quot_sub_loop(dividend, modified_divisor, 0, heap1))

\* one iteration of the for loop as the next one finds it: the index written,
\* the scaled divisor, and what the while loop left
quot_step(idx, modified_divisor, w) ==
  [idx |-> idx, modified_divisor |-> modified_divisor,
   quotient |-> w.quotient, dividend |-> w.dividend]

\* the iterations of the for loop of ha_int_quotient in order
RECURSIVE quot_steps(_, _, _, _, _, _)
quot_steps(x, y, i, idx, dividend_len, dividend) ==
  IF i > Len(x.digits)
  THEN <<>>
  ELSE LET len_differ == dividend_len - Len(y.digits)
           ten_to_power == [j \in 1..(len_differ + 1) |->
                              IF j = 1 THEN Ch1 ELSE Ch0]
           multiplier == ha_int_create(ten_to_power)
           modified_divisor == ha_int(TRUE, ha_int_mult(y, multiplier).digits)
           step == quot_step(idx, modified_divisor,
                             quot_sub_loop(dividend, modified_divisor, 0, 0))
       IN <<step>> \o quot_steps(x, y, i + 1, idx + 1, dividend_len - 1,
                                 step.dividend)

\* the end of ha_int_quotient: w is the state the for loop leaves; the
\* digits written are reversed and leading zeros removed
quotient_end(new_int, w) ==
  LET rev == [k \in 1..Len(w.digits) |->
                IF k <= w.idx THEN w.digits[w.idx - k + 1] ELSE w.digits[k]]
  IN [new_int |-> ha_int(new_int.sign, remove_leading_zeros(rev)),
      idx |-> w.idx,
      cap |-> Len(new_int.digits),
      heap |-> w.heap - 2]

\* mutant: the quotient is taken to be zero only when the divisor has more
\* digits than the dividend
quotient_run_len(x, y) ==
  LET n_len == Len(x.digits)
      m_len == Len(y.digits)
      new_int == IF m_len > n_len
                 THEN ha_int(TRUE, <<Ch0>>)
                 ELSE ha_int(mult_div_sign(x, y), init_new_int(n_len))
      dividend == ha_int(TRUE, ha_int_copy(x).digits)
  IN quotient_end(new_int,
                  quot_loop(x, y, m_len, 0, Len(dividend.digits), dividend,
                            new_int.digits, 2 + 2))

\* the body of ha_int_quotient after the zero-divisor check
quotient_run(x, y) ==
  LET n_len == Len(x.digits)
      m_len == Len(y.digits)
      new_int == IF abs_gt(y, x)
                 THEN ha_int(TRUE, <<Ch0>>)
                 ELSE ha_int(mult_div_sign(x, y), init_new_int(n_len))
      dividend == ha_int(TRUE, ha_int_copy(x).digits)
  IN quotient_end(new_int,
                  quot_loop(x, y, m_len, 0, Len(dividend.digits), dividend,
                            new_int.digits, 2 + 2))

\* mutant: a zero divisor yields zero instead of NULL
ha_int_quotient_zero(x, y) ==
  IF is_zero(y) THEN ha_int(TRUE, <<Ch0>>) ELSE quotient_run(x, y).new_int

ha_int_quotient(x, y) ==
  IF is_zero(y) THEN NULL ELSE quotient_run(x, y).new_int

\* heap blocks allocated by ha_int_quotient(x, y) and still live on return
ha_int_quotient_heap(x, y) ==
  IF is_zero(y) THEN 0 ELSE quotient_run(x, y).heap

\* mutant: the operands of the final subtraction are exchanged
ha_int_remainder_swap(x, y) ==
  IF is_zero(y) THEN NULL
  ELSE LET quotient == ha_int_quotient(x, y)
           mult == ha_int_mult(y, quotient)
       IN ha_int_sub(mult, x)

ha_int_remainder(x, y) ==
  IF is_zero(y) THEN NULL
  ELSE LET quotient == ha_int_quotient(x, y)
           mult == ha_int_mult(y, quotient)
       IN ha_int_sub(x, mult)

\* heap blocks allocated by ha_int_remainder(x, y) and still live on return
ha_int_remainder_heap(x, y) ==
  IF is_zero(y) THEN 0
  ELSE (((ha_int_quotient_heap(x, y) + 2) + 2) - 2) - 2

\* heap blocks allocated by ha_int_create(str) and still live on return
ha_int_create_heap(str) ==
  IF ha_int_create(str) = NULL THEN 1 - 1 ELSE 1 + 1

(* ------------------------------ output --------------------------------- *)

\* what print_invalid_integer(str) writes
print_invalid_integer(str) == <<[text |-> "invalid integer", arg |-> str]>>

\* what ha_int_quotient and ha_int_remainder write for a zero divisor
DivisorZeroMsg == <<[text |-> "divisor cannot be zero", arg |-> <<>>]>>

\* what ha_int_print(x) writes
ha_int_print(x) == <<[text |-> "integer", arg |-> ha_int_to_str(x)]>>

(* --------------------- arithmetic reading of a value ------------------- *)

RECURSIVE Mag(_)
Mag(digits) ==
  IF Len(digits) = 0 THEN 0
  ELSE (digits[1] - Ch0) + 10 * Mag(Tail(digits))

\* the integer an ha_int stands for
Val(x) == IF x.sign THEN Mag(x.digits) ELSE 0 - Mag(x.digits)

Abs(k) == IF k < 0 THEN 0 - k ELSE k

IsDigits(digits) == \A i \in 1..Len(digits) : digits[i] \in Ch0..Ch9

\* the representation invariant of struct ha_int
Canonical(x) ==
  /\ x # NULL
  /\ x.sign \in BOOLEAN
  /\ Len(x.digits) >= 1
  /\ IsDigits(x.digits)
  /\ (x.digits[Len(x.digits)] = Ch0 => Len(x.digits) = 1)
  /\ (is_zero(x) => x.sign)

(* ======================== the fraction layer =========================== *)
(* struct ha_frac: nega, and two ha_int, nume and denom.  A call that      *)
(* fails an assertion (or, without assertions, dereferences NULL) ends the *)
(* program: its outcome is ABORT.                                          *)

ABORT == [abort |-> TRUE]

ha_frac(nega, nume, denom) == [nega |-> nega, nume |-> nume, denom |-> denom]

ha_int_cmp(x, y) ==
  IF ha_int_gt(x, y) THEN 1
  ELSE IF ha_int_eq(x, y) THEN 0
  ELSE -1

ha_int_sign(x) == ha_int_cmp(x, ha_int_create(<<Ch0>>))

\* the recursion of get_gcd on the remainder (lines 58-65)
RECURSIVE get_gcd(_, _)
RECURSIVE get_gcd_remain(_, _)
\* mutant: the recursion ends with 1 instead of the last divisor
get_gcd_remain_one(small, remain) ==
  IF ha_int_sign(remain) = 0
  THEN ha_int_create(<<Ch1>>)
  ELSE get_gcd(remain, small)

get_gcd_remain(small, remain) ==
  IF ha_int_sign(remain) = 0
  THEN ha_int_copy(small)
  ELSE get_gcd(remain, small)

get_gcd(small, big) ==
  IF ~(ha_int_sign(small) > 0) THEN ABORT
  ELSE IF ~(ha_int_sign(big) > 0) THEN ABORT
  ELSE get_gcd_remain(small, ha_int_remainder(big, small))

\* mutant: a negative integer is copied as it is
posi_copy_id(x) == ha_int_copy(x)

posi_copy(x) ==
  IF ha_int_sign(x) < 0
  THEN ha_int_sub(ha_int_create(<<Ch0>>), x)
  ELSE ha_int_copy(x)

\* ha_frac_reduc from the gcd on: the two quotients (lines 119-121)
ha_frac_reduc_gcd(nega, n_cpy, d_cpy, gcd) ==
  IF gcd = ABORT THEN ABORT
  ELSE ha_frac(nega, ha_int_quotient(n_cpy, gcd), ha_int_quotient(d_cpy, gcd))

\* ha_frac_reduc from the positive copies on (lines 108-124)
ha_frac_reduc_cmp(nega, n_cpy, d_cpy) ==
  LET cmp == ha_int_cmp(n_cpy, d_cpy)
  IN IF cmp = 0
     THEN ha_frac(nega, ha_int_create(<<Ch1>>), ha_int_create(<<Ch1>>))
     ELSE ha_frac_reduc_gcd(nega, n_cpy, d_cpy,
                            get_gcd(IF cmp = 1 THEN d_cpy ELSE n_cpy,
                                    IF cmp = 1 THEN n_cpy ELSE d_cpy))

\* mutant: numerator and denominator are not divided by their gcd
ha_frac_reduc_nogcd(nume, denom) ==
  IF ha_int_sign(denom) = 0 THEN ABORT
  ELSE
    LET n_sign == ha_int_sign(nume)
        d_sign == ha_int_sign(denom)
    IN IF n_sign = 0
       THEN ha_frac(FALSE, ha_int_create(<<Ch0>>), ha_int_create(<<Ch1>>))
       ELSE
         LET nega == ~((n_sign > 0 /\ d_sign > 0) \/ (n_sign < 0 /\ d_sign < 0))
         IN ha_frac(nega, posi_copy(nume), posi_copy(denom))

ha_frac_reduc(nume, denom) ==
  IF ha_int_sign(denom) = 0 THEN ABORT
  ELSE
    LET n_sign == ha_int_sign(nume)
        d_sign == ha_int_sign(denom)
    IN IF n_sign = 0
       THEN ha_frac(FALSE, ha_int_create(<<Ch0>>), ha_int_create(<<Ch1>>))
       ELSE
         LET nega == ~((n_sign > 0 /\ d_sign > 0) \/ (n_sign < 0 /\ d_sign < 0))
         IN ha_frac_reduc_cmp(nega, posi_copy(nume), posi_copy(denom))

\* mutant: a zero denominator is not rejected
ha_frac_create_nozero(numerator, denominator) ==
  LET nume == ha_int_create(numerator)
      denom == ha_int_create(denominator)
  IN IF nume = NULL \/ denom = NULL
     THEN ABORT
     ELSE ha_frac_reduc(nume, denom)

\* ha_int_destroy asserts its argument: destroying NULL ends the program
ha_frac_create(numerator, denominator) ==
  LET nume == ha_int_create(numerator)
      denom == ha_int_create(denominator)
  IN IF nume = NULL \/ denom = NULL \/ ha_int_sign(denom) = 0
     THEN (IF nume = NULL THEN ABORT
           ELSE IF denom = NULL THEN ABORT
           ELSE NULL)
     ELSE ha_frac_reduc(nume, denom)

\* heap blocks live when ha_frac_create returns or ends the program: an
\* ha_int is two blocks, an ha_frac is the struct and its two ha_int.  On
\* the error branch ha_int_destroy(nume) comes first: with nume NULL the
\* program ends there and denom is never destroyed
ha_frac_create_heap(numerator, denominator) ==
  LET nume == ha_int_create(numerator)
      denom == ha_int_create(denominator)
      created == ha_int_create_heap(numerator) + ha_int_create_heap(denominator)
  IN IF nume = NULL \/ denom = NULL \/ ha_int_sign(denom) = 0
     THEN (IF nume = NULL THEN created
           ELSE (created - 2) - (IF denom = NULL THEN 0 ELSE 2))
     ELSE ((created + 5) - 2) - 2

\* mutant: a zero denominator is rejected without a message
ha_frac_create_out_quiet(numerator, denominator) ==
  LET nume == ha_int_create(numerator)
      denom == ha_int_create(denominator)
  IN (IF nume = NULL THEN print_invalid_integer(numerator) ELSE <<>>)
     \o (IF denom = NULL THEN print_invalid_integer(denominator) ELSE <<>>)
     \o (IF nume = NULL \/ denom = NULL
         THEN <<[text |-> "invalid fraction", arg |-> <<numerator, denominator>>]>>
         ELSE <<>>)

\* what ha_frac_create writes
ha_frac_create_out(numerator, denominator) ==
  LET nume == ha_int_create(numerator)
      denom == ha_int_create(denominator)
  IN (IF nume = NULL THEN print_invalid_integer(numerator) ELSE <<>>)
     \o (IF denom = NULL THEN print_invalid_integer(denominator) ELSE <<>>)
     \o (IF nume = NULL \/ denom = NULL \/ ha_int_sign(denom) = 0
         THEN <<[text |-> "invalid fraction", arg |-> <<numerator, denominator>>]>>
         ELSE <<>>)

\* the statement result->nega = nega: result is written without a test, and
\* a write through NULL ends the program
set_nega(result, nega) ==
  IF result = ABORT \/ result = NULL THEN ABORT
  ELSE [result EXCEPT !.nega = nega]

\* mutant: the copy does not take the sign over
ha_frac_copy_nonega(num) ==
  set_nega(ha_frac_create(ha_int_to_str(num.nume), ha_int_to_str(num.denom)),
           FALSE)

ha_frac_copy(num) ==
  set_nega(ha_frac_create(ha_int_to_str(num.nume), ha_int_to_str(num.denom)),
           num.nega)

\* ha_frac_add from the result of ha_frac_create on (lines 222-227)
ha_frac_add_result(x, y, result) ==
  IF x.nega /\ y.nega THEN set_nega(result, TRUE) ELSE result

\* mutant: with a negative first operand the subtraction is not reversed
ha_frac_add_nume_order(x, y, new_n_nume, new_m_nume, new_denom) ==
  [nume |-> ha_int_to_str(IF (x.nega /\ y.nega) \/ (~x.nega /\ ~y.nega)
                          THEN ha_int_add(new_n_nume, new_m_nume)
                          ELSE ha_int_sub(new_n_nume, new_m_nume)),
   denom |-> ha_int_to_str(new_denom)]

\* ha_frac_add from the numerators over the common denominator on
\* (lines 207-218): the two strings handed to ha_frac_create
ha_frac_add_nume(x, y, new_n_nume, new_m_nume, new_denom) ==
  [nume |-> ha_int_to_str(IF (x.nega /\ y.nega) \/ (~x.nega /\ ~y.nega)
                          THEN ha_int_add(new_n_nume, new_m_nume)
                          ELSE IF x.nega
                          THEN ha_int_sub(new_m_nume, new_n_nume)
                          ELSE ha_int_sub(new_n_nume, new_m_nume)),
   denom |-> ha_int_to_str(new_denom)]

\* ha_frac_add with different denominators, from the multipliers on
\* (lines 201-205)
ha_frac_add_mult(x, y, n_mult, m_mult) ==
  ha_frac_add_nume(x, y, ha_int_mult(n_mult, x.nume),
                   ha_int_mult(m_mult, y.nume), ha_int_mult(n_mult, x.denom))

\* ha_frac_add with different denominators, from their gcd on
\* (lines 198-200)
ha_frac_add_gcd(x, y, gcd) ==
  IF gcd = ABORT THEN ABORT
  ELSE ha_frac_add_mult(x, y, ha_int_quotient(y.denom, gcd),
                        ha_int_quotient(x.denom, gcd))

\* ha_frac_add up to the call of ha_frac_create (lines 183-218): the strings
\* of the new numerator and denominator.  get_gcd returns a positive
\* integer or fails an assertion, so the two quotients have a non-zero
\* divisor and write nothing
ha_frac_add_strs(x, y) ==
  LET cmp == ha_int_cmp(x.denom, y.denom)
  IN IF cmp = 0
     THEN ha_frac_add_nume(x, y, ha_int_copy(x.nume), ha_int_copy(y.nume),
                           ha_int_copy(x.denom))
     ELSE ha_frac_add_gcd(x, y,
                          get_gcd(IF cmp > 0 THEN y.denom ELSE x.denom,
                                  IF cmp > 0 THEN x.denom ELSE y.denom))

\* ha_frac_add from the call of ha_frac_create on (lines 219-227)
ha_frac_add_created(x, y, strs) ==
  IF strs = ABORT THEN ABORT
  ELSE ha_frac_add_result(x, y, ha_frac_create(strs.nume, strs.denom))

ha_frac_add(x, y) == ha_frac_add_created(x, y, ha_frac_add_strs(x, y))

\* what ha_frac_add writes: what its call of ha_frac_create writes
ha_frac_add_created_out(strs) ==
  IF strs = ABORT THEN <<>>
  ELSE ha_frac_create_out(strs.nume, strs.denom)

ha_frac_add_out(x, y) == ha_frac_add_created_out(ha_frac_add_strs(x, y))

\* mutant: the copy of the subtrahend keeps its sign
ha_frac_sub_nega(x, y) ==
  LET m_cpy == ha_frac(y.nega, ha_int_copy(y.nume), ha_int_copy(y.denom))
  IN ha_frac_add(x, m_cpy)

ha_frac_sub(x, y) ==
  LET m_cpy == ha_frac(IF ~y.nega THEN TRUE ELSE FALSE,
                       ha_int_copy(y.nume), ha_int_copy(y.denom))
  IN ha_frac_add(x, m_cpy)

\* what ha_frac_sub writes: what its call of ha_frac_add writes
ha_frac_sub_out(x, y) ==
  ha_frac_add_out(x, ha_frac(IF ~y.nega THEN TRUE ELSE FALSE,
                             ha_int_copy(y.nume), ha_int_copy(y.denom)))

\* mutant: the sign of the product ignores zero numerators
ha_frac_mult_sign(x, y) ==
  set_nega(ha_frac_create(ha_int_to_str(ha_int_mult(x.nume, y.nume)),
                          ha_int_to_str(ha_int_mult(x.denom, y.denom))),
           IF x.nega = y.nega THEN FALSE ELSE TRUE)

ha_frac_mult(x, y) ==
  set_nega(ha_frac_create(ha_int_to_str(ha_int_mult(x.nume, y.nume)),
                          ha_int_to_str(ha_int_mult(x.denom, y.denom))),
           IF x.nega = y.nega \/ ha_int_sign(x.nume) = 0
                              \/ ha_int_sign(y.nume) = 0
           THEN FALSE ELSE TRUE)

\* what ha_frac_mult writes: what its call of ha_frac_create writes
ha_frac_mult_out(x, y) ==
  ha_frac_create_out(ha_int_to_str(ha_int_mult(x.nume, y.nume)),
                     ha_int_to_str(ha_int_mult(x.denom, y.denom)))

\* mutant: the divisor is not inverted
ha_frac_div_noswap(x, y) ==
  IF ~(ha_int_sign(y.nume) # 0) THEN ABORT
  ELSE LET m_reci == ha_frac(y.nega, ha_int_copy(y.nume), ha_int_copy(y.denom))
       IN ha_frac_mult(x, m_reci)

ha_frac_div(x, y) ==
  IF ~(ha_int_sign(y.nume) # 0) THEN ABORT
  ELSE LET m_reci == ha_frac(y.nega, ha_int_copy(y.denom), ha_int_copy(y.nume))
       IN ha_frac_mult(x, m_reci)

\* what ha_frac_div writes: nothing before the assertion, then what its call
\* of ha_frac_mult writes
ha_frac_div_out(x, y) ==
  IF ~(ha_int_sign(y.nume) # 0) THEN <<>>
  ELSE ha_frac_mult_out(x, ha_frac(y.nega, ha_int_copy(y.denom),
                                   ha_int_copy(y.nume)))

\* what ha_frac_copy writes: what its call of ha_frac_create writes
ha_frac_copy_out(num) ==
  ha_frac_create_out(ha_int_to_str(num.nume), ha_int_to_str(num.denom))

ha_frac_is_frac(num) == ~ha_int_eq(num.denom, ha_int_create(<<Ch1>>))

\* mutant: the denominator is printed for an integer as well
ha_frac_print_denom(num) ==
  (IF num.nega THEN <<[text |-> "-", arg |-> <<>>]>> ELSE <<>>)
  \o ha_int_print(num.nume)
  \o <<[text |-> "/", arg |-> <<>>]>> \o ha_int_print(num.denom)

\* what ha_frac_print(num, false) writes
ha_frac_print(num) ==
  (IF num.nega THEN <<[text |-> "-", arg |-> <<>>]>> ELSE <<>>)
  \o ha_int_print(num.nume)
  \o (IF ha_int_cmp(ha_int_create(<<Ch1>>), num.denom) # 0
      THEN <<[text |-> "/", arg |-> <<>>]>> \o ha_int_print(num.denom)
      ELSE <<>>)

\* mutant: a zero difference is not told from a positive one
ha_frac_cmp_sign_nozero(n_sub_m) ==
  IF n_sub_m.nega THEN -1
  ELSE 1

\* ha_frac_cmp from the difference on (lines 284-291)
ha_frac_cmp_sign(n_sub_m) ==
  IF n_sub_m.nega THEN -1
  ELSE IF ~(ha_int_sign(n_sub_m.nume) # 0) THEN 0
  ELSE 1

ha_frac_cmp(x, y) == ha_frac_cmp_sign(ha_frac_sub(x, y))

\* what ha_frac_cmp writes: what its call of ha_frac_sub writes
ha_frac_cmp_out(x, y) == ha_frac_sub_out(x, y)

(* ========================= the complex layer =========================== *)
(* struct ha_comp: two ha_frac, real and ima.                              *)

ha_comp(real, ima) == [real |-> real, ima |-> ima]

\* the two fields of struct ha_comp
Parts == {"real", "ima"}

\* a failed assertion of a callee has ended the program already; the
\* assertions on real and ima fail for NULL
ha_comp_create_with_ha_frac(real, ima) ==
  IF real = ABORT \/ ima = ABORT THEN ABORT
  ELSE IF real = NULL \/ ima = NULL THEN ABORT
  ELSE ha_comp(real, ima)

\* ha_comp_create_with_ha_frac on a pair of fractions given by field
ha_comp_of(frac) == ha_comp_create_with_ha_frac(frac.real, frac.ima)

\* ha_comp_create from the two fractions on (lines 44-53)
ha_comp_create_real_ima(frac) ==
  IF frac.real = ABORT \/ frac.ima = ABORT THEN ABORT
  ELSE IF frac.real # NULL /\ frac.ima # NULL
  THEN ha_comp_create_with_ha_frac(frac.real, frac.ima)
  ELSE NULL

\* the two calls of ha_frac_create, by field
ha_comp_create(real_nume, real_denom, ima_nume, ima_denom) ==
  ha_comp_create_real_ima(
    [part \in Parts |->
       ha_frac_create(IF part = "real" THEN real_nume ELSE ima_nume,
                      IF part = "real" THEN real_denom ELSE ima_denom)])

\* what the two calls of ha_frac_create write; the second call is not
\* reached when the first ends the program
ha_comp_create_outs(frac, o) ==
  o.real \o (IF frac.real = ABORT THEN <<>> ELSE o.ima)

ha_comp_create_out(real_nume, real_denom, ima_nume, ima_denom) ==
  ha_comp_create_outs(
    [part \in Parts |->
       ha_frac_create(IF part = "real" THEN real_nume ELSE ima_nume,
                      IF part = "real" THEN real_denom ELSE ima_denom)],
    [part \in Parts |->
       ha_frac_create_out(IF part = "real" THEN real_nume ELSE ima_nume,
                          IF part = "real" THEN real_denom ELSE ima_denom)])

ha_frac_cmp_with_n(num, nstr) ==
  ha_frac_cmp(num, ha_frac_create(nstr, <<Ch1>>))

ha_frac_sign(num) == ha_frac_cmp_with_n(num, <<Ch0>>)

\* !ha_frac_sign(num->real) && !ha_frac_sign(num->ima)
ha_comp_is_zero(num) ==
  IF \A part \in Parts : ~(ha_frac_sign(num[part]) # 0)
  THEN TRUE
  ELSE FALSE

ha_comp_is_one(num) ==
  IF ha_frac_sign(num.ima) # 0
  THEN FALSE
  ELSE IF ~(ha_frac_cmp_with_n(num.real, <<Ch1>>) # 0)
  THEN TRUE
  ELSE FALSE

\* the two calls of ha_frac_add, by field
ha_comp_add(x, y) ==
  ha_comp_of([part \in Parts |-> ha_frac_add(x[part], y[part])])

\* the two calls of ha_frac_sub, by field
ha_comp_sub(x, y) ==
  ha_comp_of([part \in Parts |-> ha_frac_sub(x[part], y[part])])

\* mutant: the product of the imaginary parts is added to the real part
ha_comp_mult_products_plus(prod) ==
  ha_comp_create_with_ha_frac(
    ha_frac_add(prod["real", "real"], prod["ima", "ima"]),
    ha_frac_add(prod["real", "ima"], prod["ima", "real"]))

\* ha_comp_mult from the four products on: prod[l, r] is the product of
\* field l of n and field r of m
ha_comp_mult_products(prod) ==
  ha_comp_create_with_ha_frac(
    ha_frac_sub(prod["real", "real"], prod["ima", "ima"]),
    ha_frac_add(prod["real", "ima"], prod["ima", "real"]))

\* the four calls of ha_frac_mult, by the fields multiplied
ha_comp_mult(x, y) ==
  ha_comp_mult_products(
    [l \in Parts, r \in Parts |-> ha_frac_mult(x[l], y[r])])

\* ha_comp_div from the two products on (lines 156-163): div is the real
\* part of m * conj(m); the two calls of ha_frac_div, by field
ha_comp_div_products(prod) ==
  IF prod.m = ABORT \/ prod.n = ABORT THEN ABORT
  ELSE ha_comp_of([part \in Parts |->
                     ha_frac_div(prod.n[part], prod.m.real)])

\* ha_comp_div from the conjugate on (lines 154-163): the two calls of
\* ha_comp_mult, m * conj(m) and n * conj(m)
ha_comp_div_conju(x, y, m_conju) ==
  IF m_conju = ABORT THEN ABORT
  ELSE ha_comp_div_products(
         [k \in {"m", "n"} |->
            ha_comp_mult(IF k = "m" THEN y ELSE x, m_conju)])

\* mutant: the divisor is multiplied by itself instead of its conjugate
ha_comp_div_noconju(x, y) ==
  IF ~(~ha_comp_is_zero(y)) THEN ABORT
  ELSE ha_comp_div_conju(x, y,
         ha_comp_create_with_ha_frac(ha_frac_copy(y.real), ha_frac_copy(y.ima)))

ha_comp_div(x, y) ==
  IF ~(~ha_comp_is_zero(y)) THEN ABORT
  ELSE ha_comp_div_conju(x, y,
         ha_comp_create_with_ha_frac(
           ha_frac_copy(y.real),
           ha_frac_sub(ha_frac_create(<<Ch0>>, <<Ch1>>), y.ima)))

(* ----------------------- complex numbers as text ----------------------- *)

\* the C string held by a buffer: the characters before its first NUL
RECURSIVE c_str_len(_, _)
c_str_len(buf, i) ==
  IF i >= Len(buf) THEN Len(buf)
  ELSE IF buf[i + 1] = ChNul THEN i
  ELSE c_str_len(buf, i + 1)

c_str(buf) == SubSeq(buf, 1, c_str_len(buf, 0))

\* the C string that starts at position pos of str
c_str_from(str, pos) == SubSeq(str, pos + 1, Len(str))

\* the text of a fraction: "-" iff negative, the numerator's digits, and
\* "/" with the denominator's digits only when the denominator is not 1
ha_frac_to_str(num) ==
  (IF num.nega THEN <<ChMinus>> ELSE <<>>)
  \o ha_int_to_str(num.nume)
  \o (IF ha_frac_is_frac(num)
      THEN <<ChSlash>> \o ha_int_to_str(num.denom)
      ELSE <<>>)

\* ha_comp_to_str once the imaginary part is known not to be "0"
\* (lines 176-211)
ha_comp_to_str_ima(num, real, ima) ==
  LET real_eq_zero == real = <<Ch0>>
      result1 == IF real_eq_zero THEN <<>> ELSE real
      signed == ~real_eq_zero \/ ima[1] = ChMinus
      result2 == IF signed
                 THEN result1 \o (IF ima[1] = ChMinus
                                  THEN <<ChMinus>>
                                  ELSE <<ChPlus>>)
                 ELSE result1
      temp_ima == IF signed /\ ima[1] = ChMinus THEN Tail(ima) ELSE ima
      result3 == IF ha_frac_is_frac(num.ima)
                 THEN result2 \o <<ChLParen>> \o temp_ima \o <<ChRParen>>
                 ELSE IF temp_ima # <<Ch1>>
                 THEN result2 \o temp_ima
                 ELSE result2
  IN  result3 \o <<ChI>>

ha_comp_to_str_parts(num, real, ima) ==
  IF ~(ima = <<Ch0>>)
  THEN ha_comp_to_str_ima(num, real, ima)
  ELSE real

ha_comp_to_str(num) ==
  ha_comp_to_str_parts(num, ha_frac_to_str(num.real), ha_frac_to_str(num.ima))

(* --------------------------- read_input -------------------------------- *)

only_real(num) == \A i \in 0 .. Len(num) - 1 : num[i + 1] # ChI

\* the index of the first 'i' of num, 0 when there is none
RECURSIVE i_idx_from(_, _)
i_idx_from(num, i) ==
  IF i >= Len(num) THEN 0
  ELSE IF num[i + 1] = ChI THEN i
  ELSE i_idx_from(num, i + 1)

RECURSIVE only_imaginary_scan(_, _)
only_imaginary_scan(num, j) ==
  IF j < 0 THEN TRUE
  ELSE IF num[j + 1] = ChPlus THEN FALSE
  ELSE IF num[j + 1] = ChMinus THEN j = 0
  ELSE only_imaginary_scan(num, j - 1)

only_imaginary(num) ==
  IF only_real(num) THEN FALSE
  ELSE only_imaginary_scan(num, i_idx_from(num, 0) - 1)

real(num) ==
  IF only_real(num) THEN num
  ELSE IF only_imaginary(num) THEN <<>>
  ELSE c_str([i \in 1 .. Len(num) |->
                IF i - 1 >= 1 /\ (num[i] = ChPlus \/ num[i] = ChMinus)
                THEN ChNul
                ELSE num[i]])

\* the loop of imaginary (lines 327-337), curpos as an index into num
RECURSIVE imaginary_loop(_, _)
imaginary_loop(num, curpos) ==
  IF curpos >= Len(num) THEN c_str_from(num, curpos)
  ELSE IF num[curpos + 1] = ChPlus THEN c_str_from(num, curpos + 1)
  ELSE IF num[curpos + 1] = ChMinus THEN c_str_from(num, curpos)
  ELSE imaginary_loop(num, curpos + 1)

imaginary(num) ==
  IF only_imaginary(num) THEN num
  ELSE IF only_real(num) THEN <<>>
  ELSE imaginary_loop(num, 1)

coefficient_other(ch) == ~(ch = ChLParen \/ ch = ChRParen \/ ch = ChI)

\* mutant: the special case for "-i" is missing
coefficient_nominus(num) ==
  IF Len(num) = 1 /\ num[1] = ChI THEN <<Ch1>>
  ELSE SelectSeq(num, coefficient_other)

coefficient(num) ==
  IF Len(num) = 1 /\ num[1] = ChI THEN <<Ch1>>
  ELSE IF Len(num) = 2 /\ num[1] = ChMinus /\ num[2] = ChI
  THEN <<ChMinus, Ch1>>
  ELSE SelectSeq(num, coefficient_other)

numerator_cut(coe) ==
  c_str([i \in 1 .. Len(coe) |-> IF coe[i] = ChSlash THEN ChNul ELSE coe[i]])

numerator_of(nume) == IF Len(nume) = 0 THEN <<Ch0>> ELSE nume

numerator(num) == numerator_of(numerator_cut(coefficient(num)))

\* the loop of denominator (lines 419-425), curpos as an index into coe
RECURSIVE denominator_loop(_, _)
denominator_loop(coe, curpos) ==
  IF curpos >= Len(coe) THEN c_str_from(coe, curpos)
  ELSE IF coe[curpos + 1] = ChSlash THEN c_str_from(coe, curpos + 1)
  ELSE denominator_loop(coe, curpos + 1)

denominator_of(denom) == IF Len(denom) = 0 THEN <<Ch1>> ELSE denom

denominator(num) == denominator_of(denominator_loop(coefficient(num), 0))

\* read_input from the two parts on (lines 444-456)
read_input_parts(real_part, imaginary_part) ==
  ha_comp_create(numerator(real_part), denominator(real_part),
                 numerator(imaginary_part), denominator(imaginary_part))

read_input(num) == read_input_parts(real(num), imaginary(num))

read_input_parts_out(real_part, imaginary_part) ==
  ha_comp_create_out(numerator(real_part), denominator(real_part),
                     numerator(imaginary_part), denominator(imaginary_part))

read_input_out(num) == read_input_parts_out(real(num), imaginary(num))

(* ============================ storage ================================== *)
(* One call seen as the blocks it reads, writes, allocates and frees.  A   *)
(* block is a struct ha_int (field digits), a struct ha_frac (fields nume  *)
(* and denom) or a char array; a pointer is the number of a block, 0 for   *)
(* NULL.  Blocks are numbered in the order of allocation and a number is   *)
(* never used twice.                                                       *)

\* blocks one call may allocate, its operands included
MaxBlocks == 32

Blocks == 1 .. MaxBlocks

\* a block: arg marks the storage of an operand, w a block written during
\* the call
Block(kind, arg) ==
  [kind |-> kind, live |-> TRUE, arg |-> arg, w |-> FALSE,
   digits |-> 0, nume |-> 0, denom |-> 0]

NoBlock ==
  [kind |-> "none", live |-> FALSE, arg |-> FALSE, w |-> FALSE,
   digits |-> 0, nume |-> 0, denom |-> 0]

EmptyHeap == [b \in Blocks |-> NoBlock]

\* blocks of a whole object: a char array, an ha_int with its digits, an
\* ha_frac with its two ha_int
obj_size(kind) ==
  IF kind = "chars" THEN 1
  ELSE IF kind = "int" THEN 2
  ELSE IF kind = "frac" THEN 5
  ELSE 0

\* the heap h after a whole object of the kind is built in the blocks after b
alloc_obj(h, b, kind, arg) ==
  IF kind = "chars"
  THEN [h EXCEPT ![b + 1] = Block("chars", arg)]
  ELSE IF kind = "int"
  THEN [h EXCEPT ![b + 1] = [Block("int", arg) EXCEPT !.digits = b + 2],
                 ![b + 2] = Block("chars", arg)]
  ELSE IF kind = "frac"
  THEN [h EXCEPT ![b + 1] = [Block("frac", arg) EXCEPT !.nume = b + 2,
                                                      !.denom = b + 4],
                 ![b + 2] = [Block("int", arg) EXCEPT !.digits = b + 3],
                 ![b + 3] = Block("chars", arg),
                 ![b + 4] = [Block("int", arg) EXCEPT !.digits = b + 5],
                 ![b + 5] = Block("chars", arg)]
  ELSE h

\* the blocks the pointers of the blocks of S lead to, S included
pointees(h, S) ==
  (S \cup {h[b].digits : b \in S} \cup {h[b].nume : b \in S}
     \cup {h[b].denom : b \in S}) \ {0}

\* the blocks of the object at block id
reach(h, id) == pointees(h, pointees(h, {id} \ {0}))

(* A function body is the sequence of its storage statements.  A path is a *)
(* pointer variable, <<"n">>, or a pointer field of the block a variable   *)
(* points to, <<"n", "digits">>.  A condition on values is a branch that   *)
(* may go either way.                                                      *)

\* dst = malloc(..): one block of the kind, its pointer fields not yet set
Malloc(dst, kind) == [k |-> "malloc", a |-> dst, b |-> kind, c |-> <<>>]

\* dst = f(args): f reads the objects of its arguments and returns a new
\* object of the kind ("none": f returns no pointer)
Call(dst, kind, args) == [k |-> "call", a |-> dst, b |-> kind, c |-> args]

\* the blocks at the paths are read
Read(args) == [k |-> "read", a |-> <<>>, b |-> "none", c |-> args]

\* the block at dst is written with values read from the blocks at args
Write(dst, args) == [k |-> "write", a |-> dst, b |-> "none", c |-> args]

\* dst = src (src <<>>: NULL)
Assign(dst, src) == [k |-> "assign", a |-> dst, b |-> src, c |-> <<>>]

\* free(p)
Free(p) == [k |-> "free", a |-> p, b |-> "none", c |-> <<>>]

\* ha_int_destroy(p), ha_frac_destroy(p): the blocks of the object are freed
Destroy(p) == [k |-> "destroy", a |-> p, b |-> "none", c |-> <<>>]

\* p = remove_leading_zeros(p): realloc moves the array or leaves it, the
\* terminator is written, the pointer is stored
Realloc(p) == [k |-> "realloc", a |-> p, b |-> "none", c |-> <<>>]

\* a condition or a loop: control goes to one of the statements of to
Br(to) == [k |-> "br", a |-> to, b |-> "none", c |-> <<>>]

\* return p (p <<>>: no pointer is returned)
Ret(p) == [k |-> "ret", a |-> p, b |-> "none", c |-> <<>>]

(* ------------------ the integer functions, statement by statement ------ *)

ha_int_create_mem ==
  << Read(<< <<"s">> >>),
     Malloc(<<"integer">>, "int"),
     Write(<<"integer">>, <<>>),
     Br({5, 7}),
     Free(<<"integer">>),
     Ret(<<>>),
     Read(<< <<"s">> >>),
     Br({5, 9, 10}),
     Write(<<"integer">>, <<>>),
     Br({5, 11}),
     Malloc(<<"integer", "digits">>, "chars"),
     Write(<<"integer", "digits">>, << <<"s">> >>),
     Br({12, 14}),
     Ret(<<"integer">>) >>

ha_int_copy_mem ==
  << Malloc(<<"new_int">>, "int"),
     Write(<<"new_int">>, << <<"n">> >>),
     Read(<< <<"n", "digits">> >>),
     Malloc(<<"new_int", "digits">>, "chars"),
     Write(<<"new_int", "digits">>, << <<"n", "digits">> >>),
     Ret(<<"new_int">>) >>

ha_int_eq_mem ==
  << Read(<< <<"n">>, <<"m">> >>),
     Br({3, 7}),
     Read(<< <<"n", "digits">>, <<"m", "digits">> >>),
     Br({5, 7}),
     Read(<< <<"n", "digits">>, <<"m", "digits">> >>),
     Br({5, 7}),
     Ret(<<>>) >>

abs_gt_mem ==
  << Read(<< <<"n", "digits">>, <<"m", "digits">> >>),
     Br({3, 5}),
     Read(<< <<"n", "digits">>, <<"m", "digits">> >>),
     Br({3, 5}),
     Ret(<<>>) >>

ha_int_gt_mem ==
  << Read(<< <<"n">>, <<"m">> >>),
     Br({3, 4}),
     Call(<<>>, "none", << <<"n">>, <<"m">> >>),
     Ret(<<>>) >>

abs_add_mem ==
  << Read(<< <<"n", "digits">>, <<"m", "digits">> >>),
     Malloc(<<"new_int">>, "int"),
     Write(<<"new_int">>, <<>>),
     Malloc(<<"new_int", "digits">>, "chars"),
     Write(<<"new_int", "digits">>, <<>>),
     Br({7, 9}),
     Write(<<"new_int", "digits">>,
           << <<"m", "digits">>, <<"n", "digits">> >>),
     Br({7, 9}),
     Realloc(<<"new_int", "digits">>),
     Ret(<<"new_int">>) >>

abs_big_sub_small_mem ==
  << Read(<< <<"n", "digits">>, <<"m", "digits">> >>),
     Malloc(<<"new_int">>, "int"),
     Write(<<"new_int">>, <<>>),
     Malloc(<<"new_int", "digits">>, "chars"),
     Write(<<"new_int", "digits">>, <<>>),
     Malloc(<<"big">>, "chars"),
     Malloc(<<"small">>, "chars"),
     Call(<<>>, "none", << <<"n">>, <<"m">> >>),
     Br({10, 13}),
     Write(<<"big">>, << <<"n", "digits">> >>),
     Write(<<"small">>, << <<"m", "digits">> >>),
     Br({15}),
     Write(<<"big">>, << <<"m", "digits">> >>),
     Write(<<"small">>, << <<"n", "digits">> >>),
     Br({16, 18}),
     Write(<<"new_int", "digits">>, << <<"big">>, <<"small">> >>),
     Br({16, 18}),
     Realloc(<<"new_int", "digits">>),
     Free(<<"big">>),
     Free(<<"small">>),
     Ret(<<"new_int">>) >>

ha_int_add_mem ==
  << Read(<< <<"n">>, <<"m">> >>),
     Br({3, 6}),
     Call(<<"new_int">>, "int", << <<"n">>, <<"m">> >>),
     Write(<<"new_int">>, << <<"n">> >>),
     Ret(<<"new_int">>),
     Call(<<"new_int">>, "int", << <<"n">>, <<"m">> >>),
     Call(<<>>, "none", << <<"n">>, <<"m">> >>),
     Br({9, 11}),
     Read(<< <<"n">> >>),
     Br({15, 16}),
     Call(<<>>, "none", << <<"m">>, <<"n">> >>),
     Br({13, 16}),
     Read(<< <<"n">> >>),
     Br({15, 16}),
     Write(<<"new_int">>, <<>>),
     Ret(<<"new_int">>) >>

ha_int_sub_mem ==
  << Read(<< <<"n">>, <<"m">> >>),
     Br({3, 6}),
     Call(<<"new_int">>, "int", << <<"n">>, <<"m">> >>),
     Write(<<"new_int">>, << <<"n">> >>),
     Ret(<<"new_int">>),
     Call(<<"new_int">>, "int", << <<"n">>, <<"m">> >>),
     Call(<<>>, "none", << <<"n">>, <<"m">> >>),
     Br({9, 11}),
     Read(<< <<"n">> >>),
     Br({15, 16}),
     Call(<<>>, "none", << <<"m">>, <<"n">> >>),
     Br({13, 16}),
     Read(<< <<"n">> >>),
     Br({15, 16}),
     Write(<<"new_int">>, <<>>),
     Ret(<<"new_int">>) >>

ha_int_mult_mem ==
  << Read(<< <<"n", "digits">>, <<"m", "digits">> >>),
     Malloc(<<"new_int">>, "int"),
     Call(<<>>, "none", << <<"n">>, <<"m">> >>),
     Write(<<"new_int">>, <<>>),
     Malloc(<<"new_int", "digits">>, "chars"),
     Write(<<"new_int", "digits">>, <<>>),
     Br({8, 10}),
     Write(<<"new_int", "digits">>,
           << <<"n", "digits">>, <<"m", "digits">>,
              <<"new_int", "digits">> >>),
     Br({8, 10}),
     Realloc(<<"new_int", "digits">>),
     Ret(<<"new_int">>) >>

ha_int_quotient_mem ==
  << Call(<<>>, "none", << <<"m">> >>),
     Br({3, 4}),
     Ret(<<>>),
     Read(<< <<"n", "digits">>, <<"m", "digits">> >>),
     Malloc(<<"new_int">>, "int"),
     Call(<<>>, "none", << <<"m">>, <<"n">> >>),
     Br({8, 12}),
     Write(<<"new_int">>, <<>>),
     Malloc(<<"new_int", "digits">>, "chars"),
     Write(<<"new_int", "digits">>, <<>>),
     Br({16}),
     Call(<<>>, "none", << <<"n">>, <<"m">> >>),
     Write(<<"new_int">>, <<>>),
     Malloc(<<"new_int", "digits">>, "chars"),
     Write(<<"new_int", "digits">>, <<>>),
     Call(<<"dividend">>, "int", << <<"n">> >>),
     Write(<<"dividend">>, <<>>),
     Read(<< <<"dividend", "digits">> >>),
     Br({20, 36}),
     Malloc(<<"ten_to_power">>, "chars"),
     Write(<<"ten_to_power">>, <<>>),
     Call(<<"multiplier">>, "int", << <<"ten_to_power">> >>),
     Free(<<"ten_to_power">>),
     Call(<<"modified_divisor">>, "int", << <<"m">>, <<"multiplier">> >>),
     Write(<<"modified_divisor">>, <<>>),
     Destroy(<<"multiplier">>),
     Call(<<>>, "none", << <<"modified_divisor">>, <<"dividend">> >>),
     Br({29, 33}),
     Call(<<"new_dividend">>, "int",
          << <<"dividend">>, <<"modified_divisor">> >>),
     Destroy(<<"dividend">>),
     Assign(<<"dividend">>, <<"new_dividend">>),
     Br({27}),
     Write(<<"new_int", "digits">>, <<>>),
     Destroy(<<"modified_divisor">>),
     Br({19}),
     Destroy(<<"dividend">>),
     Br({38, 40}),
     Write(<<"new_int", "digits">>, << <<"new_int", "digits">> >>),
     Br({38, 40}),
     Realloc(<<"new_int", "digits">>),
     Ret(<<"new_int">>) >>

ha_int_remainder_mem ==
  << Call(<<>>, "none", << <<"m">> >>),
     Br({3, 4}),
     Ret(<<>>),
     Call(<<"quotient">>, "int", << <<"n">>, <<"m">> >>),
     Call(<<"mult">>, "int", << <<"m">>, <<"quotient">> >>),
     Call(<<"new_int">>, "int", << <<"n">>, <<"mult">> >>),
     Destroy(<<"quotient">>),
     Destroy(<<"mult">>),
     Ret(<<"new_int">>) >>

ha_int_to_str_mem ==
  << Read(<< <<"n", "digits">>, <<"n">> >>),
     Malloc(<<"num">>, "chars"),
     Br({4, 5}),
     Write(<<"num">>, <<>>),
     Read(<< <<"n", "digits">> >>),
     Br({7, 9}),
     Write(<<"num">>, << <<"n", "digits">> >>),
     Br({7, 9}),
     Write(<<"num">>, <<>>),
     Ret(<<"num">>) >>

(* ----------------- the fraction functions, statement by statement ------ *)

ha_int_cmp_mem ==
  << Call(<<>>, "none", << <<"n">>, <<"m">> >>),
     Br({3, 4}),
     Call(<<>>, "none", << <<"n">>, <<"m">> >>),
     Ret(<<>>) >>

ha_int_sign_mem ==
  << Call(<<"zero">>, "int", <<>>),
     Call(<<>>, "none", << <<"n">>, <<"zero">> >>),
     Destroy(<<"zero">>),
     Ret(<<>>) >>

get_gcd_mem ==
  << Call(<<>>, "none", << <<"small">> >>),
     Call(<<>>, "none", << <<"big">> >>),
     Call(<<"remain">>, "int", << <<"big">>, <<"small">> >>),
     Call(<<>>, "none", << <<"remain">> >>),
     Br({6, 9}),
     Destroy(<<"remain">>),
     Call(<<"result">>, "int", << <<"small">> >>),
     Ret(<<"result">>),
     Call(<<"result">>, "int", << <<"remain">>, <<"small">> >>),
     Destroy(<<"remain">>),
     Ret(<<"result">>) >>

posi_copy_mem ==
  << Call(<<>>, "none", << <<"n">> >>),
     Br({3, 7}),
     Call(<<"zero">>, "int", <<>>),
     Call(<<"cpy">>, "int", << <<"zero">>, <<"n">> >>),
     Destroy(<<"zero">>),
     Br({8}),
     Call(<<"cpy">>, "int", << <<"n">> >>),
     Ret(<<"cpy">>) >>

ha_frac_reduc_mem ==
  << Call(<<>>, "none", << <<"denom">> >>),
     Malloc(<<"result">>, "frac"),
     Call(<<>>, "none", << <<"nume">> >>),
     Call(<<>>, "none", << <<"denom">> >>),
     Br({6, 10}),
     Write(<<"result">>, <<>>),
     Call(<<"result", "nume">>, "int", <<>>),
     Call(<<"result", "denom">>, "int", <<>>),
     Br({24}),
     Write(<<"result">>, <<>>),
     Call(<<"n_cpy">>, "int", << <<"nume">> >>),
     Call(<<"d_cpy">>, "int", << <<"denom">> >>),
     Call(<<>>, "none", << <<"n_cpy">>, <<"d_cpy">> >>),
     Br({15, 18}),
     Call(<<"result", "nume">>, "int", <<>>),
     Call(<<"result", "denom">>, "int", <<>>),
     Br({22}),
     Call(<<"gcd">>, "int", << <<"d_cpy">>, <<"n_cpy">> >>),
     Call(<<"result", "nume">>, "int", << <<"n_cpy">>, <<"gcd">> >>),
     Call(<<"result", "denom">>, "int", << <<"d_cpy">>, <<"gcd">> >>),
     Destroy(<<"gcd">>),
     Destroy(<<"n_cpy">>),
     Destroy(<<"d_cpy">>),
     Ret(<<"result">>) >>

\* the strings are valid integer literals: for the others see ha_frac_create
ha_frac_create_mem ==
  << Call(<<"nume">>, "int", << <<"numerator">> >>),
     Call(<<"denom">>, "int", << <<"denominator">> >>),
     Call(<<>>, "none", << <<"denom">> >>),
     Br({5, 8}),
     Destroy(<<"nume">>),
     Destroy(<<"denom">>),
     Ret(<<>>),
     Call(<<"result">>, "frac", << <<"nume">>, <<"denom">> >>),
     Destroy(<<"nume">>),
     Destroy(<<"denom">>),
     Ret(<<"result">>) >>

ha_frac_copy_mem ==
  << Call(<<"nume">>, "chars", << <<"num", "nume">> >>),
     Call(<<"denom">>, "chars", << <<"num", "denom">> >>),
     Call(<<"result">>, "frac", << <<"nume">>, <<"denom">> >>),
     Free(<<"nume">>),
     Free(<<"denom">>),
     Write(<<"result">>, << <<"num">> >>),
     Ret(<<"result">>) >>

ha_frac_add_mem ==
  << Call(<<>>, "none", << <<"n", "denom">>, <<"m", "denom">> >>),
     Br({3, 7}),
     Call(<<"new_n_nume">>, "int", << <<"n", "nume">> >>),
     Call(<<"new_m_nume">>, "int", << <<"m", "nume">> >>),
     Call(<<"new_denom">>, "int", << <<"n", "denom">> >>),
     Br({16}),
     Call(<<"gcd">>, "int", << <<"m", "denom">>, <<"n", "denom">> >>),
     Call(<<"n_mult">>, "int", << <<"m", "denom">>, <<"gcd">> >>),
     Call(<<"m_mult">>, "int", << <<"n", "denom">>, <<"gcd">> >>),
     Destroy(<<"gcd">>),
     Call(<<"new_n_nume">>, "int", << <<"n_mult">>, <<"n", "nume">> >>),
     Call(<<"new_m_nume">>, "int", << <<"m_mult">>, <<"m", "nume">> >>),
     Call(<<"new_denom">>, "int", << <<"n_mult">>, <<"n", "denom">> >>),
     Destroy(<<"n_mult">>),
     Destroy(<<"m_mult">>),
     Read(<< <<"n">>, <<"m">> >>),
     Call(<<"new_nume">>, "int", << <<"new_n_nume">>, <<"new_m_nume">> >>),
     Destroy(<<"new_n_nume">>),
     Destroy(<<"new_m_nume">>),
     Call(<<"new_nume_str">>, "chars", << <<"new_nume">> >>),
     Call(<<"new_denom_str">>, "chars", << <<"new_denom">> >>),
     Call(<<"result">>, "frac",
          << <<"new_nume_str">>, <<"new_denom_str">> >>),
     Free(<<"new_nume_str">>),
     Free(<<"new_denom_str">>),
     Read(<< <<"n">>, <<"m">> >>),
     Br({27, 28}),
     Write(<<"result">>, <<>>),
     Destroy(<<"new_nume">>),
     Destroy(<<"new_denom">>),
     Ret(<<"result">>) >>

\* mutant: the sign is flipped in the second operand itself, not in a copy
ha_frac_sub_mem_nocopy ==
  << Assign(<<"m_cpy">>, <<"m">>),
     Read(<< <<"m">> >>),
     Write(<<"m_cpy">>, <<>>),
     Call(<<"result">>, "frac", << <<"n">>, <<"m_cpy">> >>),
     Ret(<<"result">>) >>

ha_frac_sub_mem ==
  << Malloc(<<"m_cpy">>, "frac"),
     Call(<<"m_cpy", "nume">>, "int", << <<"m", "nume">> >>),
     Call(<<"m_cpy", "denom">>, "int", << <<"m", "denom">> >>),
     Read(<< <<"m">> >>),
     Write(<<"m_cpy">>, <<>>),
     Call(<<"result">>, "frac", << <<"n">>, <<"m_cpy">> >>),
     Destroy(<<"m_cpy">>),
     Ret(<<"result">>) >>

ha_frac_mult_mem ==
  << Call(<<"new_nume">>, "int", << <<"n", "nume">>, <<"m", "nume">> >>),
     Call(<<"new_denom">>, "int", << <<"n", "denom">>, <<"m", "denom">> >>),
     Call(<<"new_nume_str">>, "chars", << <<"new_nume">> >>),
     Call(<<"new_denom_str">>, "chars", << <<"new_denom">> >>),
     Call(<<"result">>, "frac",
          << <<"new_nume_str">>, <<"new_denom_str">> >>),
     Destroy(<<"new_nume">>),
     Destroy(<<"new_denom">>),
     Free(<<"new_nume_str">>),
     Free(<<"new_denom_str">>),
     Read(<< <<"n">>, <<"m">> >>),
     Br({12, 15}),
     Call(<<>>, "none", << <<"n", "nume">> >>),
     Br({14, 15}),
     Call(<<>>, "none", << <<"m", "nume">> >>),
     Write(<<"result">>, <<>>),
     Ret(<<"result">>) >>

ha_frac_div_mem ==
  << Call(<<>>, "none", << <<"m", "nume">> >>),
     Malloc(<<"m_reci">>, "frac"),
     Call(<<"m_reci", "nume">>, "int", << <<"m", "denom">> >>),
     Call(<<"m_reci", "denom">>, "int", << <<"m", "nume">> >>),
     Write(<<"m_reci">>, << <<"m">> >>),
     Call(<<"result">>, "frac", << <<"n">>, <<"m_reci">> >>),
     Destroy(<<"m_reci">>),
     Ret(<<"result">>) >>

ha_frac_cmp_mem ==
  << Call(<<"n_sub_m">>, "frac", << <<"n">>, <<"m">> >>),
     Read(<< <<"n_sub_m">> >>),
     Br({4, 5}),
     Call(<<>>, "none", << <<"n_sub_m", "nume">> >>),
     Destroy(<<"n_sub_m">>),
     Ret(<<>>) >>

(* --------------------------- one call ---------------------------------- *)

\* the functions, each with its parameters and their kinds
MemFuns ==
  {"ha_int_create", "ha_int_copy", "ha_int_eq", "abs_gt", "ha_int_gt",
   "abs_add", "abs_big_sub_small", "ha_int_add", "ha_int_sub", "ha_int_mult",
   "ha_int_quotient", "ha_int_remainder", "ha_int_to_str", "ha_int_cmp",
   "ha_int_sign", "get_gcd", "posi_copy", "ha_frac_reduc", "ha_frac_create",
   "ha_frac_copy", "ha_frac_add", "ha_frac_sub", "ha_frac_mult",
   "ha_frac_div", "ha_frac_cmp"}

Params(f) ==
  IF f = "ha_int_create" THEN << <<"s", "chars">> >>
  ELSE IF f \in {"ha_int_copy", "ha_int_to_str", "ha_int_sign", "posi_copy"}
  THEN << <<"n", "int">> >>
  ELSE IF f = "get_gcd" THEN << <<"small", "int">>, <<"big", "int">> >>
  ELSE IF f = "ha_frac_reduc"
  THEN << <<"nume", "int">>, <<"denom", "int">> >>
  ELSE IF f = "ha_frac_create"
  THEN << <<"numerator", "chars">>, <<"denominator", "chars">> >>
  ELSE IF f = "ha_frac_copy" THEN << <<"num", "frac">> >>
  ELSE IF f \in {"ha_frac_add", "ha_frac_sub", "ha_frac_mult", "ha_frac_div",
                 "ha_frac_cmp"}
  THEN << <<"n", "frac">>, <<"m", "frac">> >>
  ELSE << <<"n", "int">>, <<"m", "int">> >>

Prog(f) ==
  IF f = "ha_int_create" THEN ha_int_create_mem
  ELSE IF f = "ha_int_copy" THEN ha_int_copy_mem
  ELSE IF f = "ha_int_eq" THEN ha_int_eq_mem
  ELSE IF f = "abs_gt" THEN abs_gt_mem
  ELSE IF f = "ha_int_gt" THEN ha_int_gt_mem
  ELSE IF f = "abs_add" THEN abs_add_mem
  ELSE IF f = "abs_big_sub_small" THEN abs_big_sub_small_mem
  ELSE IF f = "ha_int_add" THEN ha_int_add_mem
  ELSE IF f = "ha_int_sub" THEN ha_int_sub_mem
  ELSE IF f = "ha_int_mult" THEN ha_int_mult_mem
  ELSE IF f = "ha_int_quotient" THEN ha_int_quotient_mem
  ELSE IF f = "ha_int_remainder" THEN ha_int_remainder_mem
  ELSE IF f = "ha_int_to_str" THEN ha_int_to_str_mem
  ELSE IF f = "ha_int_cmp" THEN ha_int_cmp_mem
  ELSE IF f = "ha_int_sign" THEN ha_int_sign_mem
  ELSE IF f = "get_gcd" THEN get_gcd_mem
  ELSE IF f = "posi_copy" THEN posi_copy_mem
  ELSE IF f = "ha_frac_reduc" THEN ha_frac_reduc_mem
  ELSE IF f = "ha_frac_create" THEN ha_frac_create_mem
  ELSE IF f = "ha_frac_copy" THEN ha_frac_copy_mem
  ELSE IF f = "ha_frac_add" THEN ha_frac_add_mem
  ELSE IF f = "ha_frac_sub" THEN ha_frac_sub_mem
  ELSE IF f = "ha_frac_mult" THEN ha_frac_mult_mem
  ELSE IF f = "ha_frac_div" THEN ha_frac_div_mem
  ELSE IF f = "ha_frac_cmp" THEN ha_frac_cmp_mem
  ELSE <<>>

\* the parameters and local pointer variables of the functions
MemVars ==
  {"s", "integer", "n", "m", "new_int", "big", "small", "dividend",
   "ten_to_power", "multiplier", "modified_divisor", "new_dividend",
   "quotient", "mult", "num", "zero", "remain", "result", "cpy", "nume",
   "denom", "n_cpy", "d_cpy", "gcd", "numerator", "denominator",
   "new_n_nume", "new_m_nume", "new_denom", "n_mult", "m_mult", "new_nume",
   "new_nume_str", "new_denom_str", "m_cpy", "m_reci", "n_sub_m"}

NoEnv == [v \in MemVars |-> 0]

\* no call is looked at
MemIdle ==
  /\ fun = ""
  /\ pc = 0
  /\ env = NoEnv
  /\ mem = EmptyHeap
  /\ brk = 0
  /\ res = 0
  /\ fault = ""

\* the operands of a call of f: one object for each parameter
ArgHeap(p) ==
  IF Len(p) = 1
  THEN alloc_obj(EmptyHeap, 0, p[1][2], TRUE)
  ELSE alloc_obj(alloc_obj(EmptyHeap, 0, p[1][2], TRUE),
                 obj_size(p[1][2]), p[2][2], TRUE)

ArgBlocks(p) ==
  IF Len(p) = 1 THEN obj_size(p[1][2])
  ELSE obj_size(p[1][2]) + obj_size(p[2][2])

\* the parameters point to the operands; with same, a function of two
\* parameters is handed the same object twice
ArgEnv(p, same) ==
  [v \in MemVars |->
     IF v = p[1][1] THEN 1
     ELSE IF Len(p) = 2 /\ v = p[2][1]
     THEN (IF same THEN 1 ELSE obj_size(p[1][2]) + 1)
     ELSE 0]

\* the pointer at the path can be read: a variable, or a field of a live
\* block
ptr_ok(path) ==
  \/ Len(path) = 1
  \/ (env[path[1]] # 0 /\ mem[env[path[1]]].live)

\* the pointer at the path
addr(path) ==
  IF Len(path) = 1 THEN env[path[1]] ELSE mem[env[path[1]]][path[2]]

\* the pointer at the path leads to a live block
block_ok(path) ==
  /\ ptr_ok(path)
  /\ addr(path) # 0
  /\ mem[addr(path)].live

\* the pointer at the path leads to an object all of whose blocks are live
obj_ok(path) ==
  /\ block_ok(path)
  /\ \A b \in reach(mem, addr(path)) : mem[b].live

\* the path can be assigned to
dst_ok(dst) ==
  \/ Len(dst) < 2
  \/ (env[dst[1]] # 0 /\ mem[env[dst[1]]].live)

\* the variables after the pointer id is assigned to the path
store_env(dst, id) ==
  IF Len(dst) = 1 THEN [env EXCEPT ![dst[1]] = id] ELSE env

\* the heap h after the pointer id is assigned to the path
store_mem(h, dst, id) ==
  IF Len(dst) = 2
  THEN [h EXCEPT ![env[dst[1]]] = [@ EXCEPT ![dst[2]] = id, !.w = TRUE]]
  ELSE h

\* the heap h with the blocks of S freed
free_blocks(h, S) ==
  [b \in Blocks |-> IF b \in S THEN [h[b] EXCEPT !.live = FALSE] ELSE h[b]]

(* ------------------------- the client's state -------------------------- *)
(* n, m   the two operands the client holds                                *)
(* s      the string the client passes to ha_int_create, or the string     *)
(*        ha_int_to_str returned                                           *)
(* op     the library function called last                                 *)
(* ret    the ha_int (or NULL) the last call returned                      *)
(* flag   the bool the last call returned                                  *)
(* live   heap blocks the last call allocated and left live                *)
(* out    what the last call wrote to standard output                      *)
(* fn, fm the two fractions the client holds                               *)
(* t      the denominator string the client passes to ha_frac_create (s is *)
(*        the numerator string)                                            *)
(* fret   the ha_frac (or NULL) the last call returned                     *)
(* aborted  the last call ended the program                                *)
(* fcmp   the int the last call of ha_frac_cmp returned                    *)
(* cn, cm the two complex numbers the client holds                         *)
(* cret   the ha_comp (or NULL) the last call of the arithmetic returned   *)
(* cread  the ha_comp (or NULL) the last call of read_input returned       *)

\* the fraction 0/1 as ha_frac_create builds it
ZeroFrac == ha_frac_create(<<Ch0>>, <<Ch1>>)

\* the complex number 0 as ha_comp_create builds it
ZeroComp == ha_comp(ZeroFrac, ZeroFrac)

Init ==
  /\ n = ha_int_create(<<Ch0>>)
  /\ m = ha_int_create(<<Ch0>>)
  /\ s \in Strings
  /\ op = "init"
  /\ ret = NULL
  /\ flag = FALSE
  /\ live = 0
  /\ out = <<>>
  /\ fn = ZeroFrac
  /\ fm = ZeroFrac
  /\ fret = NULL
  /\ t = <<>>
  /\ aborted = FALSE
  /\ fcmp = 0
  /\ cn = ZeroComp
  /\ cm = ZeroComp
  /\ cret = NULL
  /\ cread = NULL
  /\ MemIdle

Returns(name, r, h, o) ==
  /\ op' = name
  /\ ret' = r
  /\ flag' = FALSE
  /\ s' = <<>>
  /\ live' = h
  /\ out' = o
  /\ UNCHANGED <<n, m>>
  /\ UNCHANGED fracvars
  /\ UNCHANGED compvars
  /\ UNCHANGED memvars

Decides(name, b) ==
  /\ op' = name
  /\ ret' = NULL
  /\ flag' = b
  /\ s' = <<>>
  /\ live' = 0
  /\ out' = <<>>
  /\ UNCHANGED <<n, m>>
  /\ UNCHANGED fracvars
  /\ UNCHANGED compvars
  /\ UNCHANGED memvars

Create ==
  /\ op' = "create"
  /\ ret' = ha_int_create(s)
  /\ live' = ha_int_create_heap(s)
  /\ out' = IF ha_int_create(s) = NULL THEN print_invalid_integer(s) ELSE <<>>
  /\ flag' = FALSE
  /\ UNCHANGED <<n, m, s>>
  /\ UNCHANGED fracvars
  /\ UNCHANGED compvars
  /\ UNCHANGED memvars

ToStr ==
  /\ op' = "to_str"
  /\ s' = ha_int_to_str(n)
  /\ ret' = NULL
  /\ flag' = FALSE
  /\ live' = 1
  /\ out' = <<>>
  /\ UNCHANGED <<n, m>>
  /\ UNCHANGED fracvars
  /\ UNCHANGED compvars
  /\ UNCHANGED memvars

Copy == Returns("copy", ha_int_copy(n), 2, <<>>)

PrintInt == Returns("print", NULL, 0, ha_int_print(n))

Eq == Decides("eq", ha_int_eq(n, m))

Gt == Decides("gt", ha_int_gt(n, m))

Add == Returns("add", ha_int_add(n, m), 2, <<>>)

Sub == Returns("sub", ha_int_sub(n, m), 2, <<>>)

Mult == Returns("mult", ha_int_mult(n, m), 2, <<>>)

Quotient ==
  Returns("quotient", ha_int_quotient(n, m), ha_int_quotient_heap(n, m),
          IF is_zero(m) THEN DivisorZeroMsg ELSE <<>>)

Remainder ==
  Returns("remainder", ha_int_remainder(n, m), ha_int_remainder_heap(n, m),
          IF is_zero(m) THEN DivisorZeroMsg ELSE <<>>)

\* the client keeps the returned value as its first operand
KeepN ==
  /\ ret # NULL
  /\ Abs(Val(ret)) <= MaxAbs
  /\ n' = ret
  /\ op' = "keep"
  /\ ret' = NULL
  /\ flag' = FALSE
  /\ s' = <<>>
  /\ live' = 0
  /\ out' = <<>>
  /\ UNCHANGED m
  /\ UNCHANGED fracvars
  /\ UNCHANGED compvars
  /\ UNCHANGED memvars

\* the client keeps the returned value as its second operand
KeepM ==
  /\ ret # NULL
  /\ Abs(Val(ret)) <= MaxAbs
  /\ m' = ret
  /\ op' = "keep"
  /\ ret' = NULL
  /\ flag' = FALSE
  /\ s' = <<>>
  /\ live' = 0
  /\ out' = <<>>
  /\ UNCHANGED n
  /\ UNCHANGED fracvars
  /\ UNCHANGED compvars
  /\ UNCHANGED memvars

Next ==
  \/ Create
  \/ ToStr
  \/ Copy
  \/ PrintInt
  \/ Eq
  \/ Gt
  \/ Add
  \/ Sub
  \/ Mult
  \/ Quotient
  \/ Remainder
  \/ KeepN
  \/ KeepM

Spec == Init /\ [][Next]_vars

(* -------------------- the client of the fraction layer ----------------- *)

\* longest string handed to ha_frac_create
MaxLitLen == 2

\* largest numerator and denominator of a result that the client keeps as a
\* later operand
MaxNume == 2

MaxDenom == 3

FracChars == {ChMinus, Ch0, Ch1, Ch0 + 2, Ch0 + 3}

FracLits == UNION {[1..k -> FracChars] : k \in 0..MaxLitLen}

InFracBound(f) ==
  /\ Mag(f.nume.digits) <= MaxNume
  /\ Mag(f.denom.digits) <= MaxDenom

InitFrac ==
  /\ n = ha_int_create(<<Ch0>>)
  /\ m = ha_int_create(<<Ch0>>)
  /\ ret = NULL
  /\ flag = FALSE
  /\ op = "init"
  /\ live = 0
  /\ out = <<>>
  /\ fn = ZeroFrac
  /\ fm = ZeroFrac
  /\ fret = NULL
  /\ aborted = FALSE
  /\ fcmp = 0
  /\ cn = ZeroComp
  /\ cm = ZeroComp
  /\ cret = NULL
  /\ cread = NULL
  /\ MemIdle
  /\ s \in FracLits
  /\ t \in FracLits

\* heap blocks of a returned fraction: the struct and two ha_int
FracBlocks(r) == IF r = NULL \/ r = ABORT THEN 0 ELSE 5

\* a call of the fraction layer: r is what it returns, h the heap blocks live
\* on return, o what it wrote
FracCall(name, r, h, o) ==
  /\ ~aborted
  /\ op' = name
  /\ fret' = IF r = ABORT THEN NULL ELSE r
  /\ aborted' = (r = ABORT)
  /\ live' = h
  /\ out' = o
  /\ fcmp' = 0
  /\ UNCHANGED <<fn, fm>>
  /\ UNCHANGED intvars
  /\ UNCHANGED compvars
  /\ UNCHANGED memvars

\* a call on the operands; the client converts the literals it has read
\* before it calculates
FracReturns(name, r, o) ==
  /\ s = <<>>
  /\ t = <<>>
  /\ FracCall(name, r, FracBlocks(r), o)
  /\ s' = <<>>
  /\ t' = <<>>

\* the client converts the two literals it has read
FracCreate ==
  /\ op = "init"
  /\ FracCall("frac_create", ha_frac_create(s, t), ha_frac_create_heap(s, t),
              ha_frac_create_out(s, t))
  /\ UNCHANGED <<s, t>>

FracCopy == FracReturns("frac_copy", ha_frac_copy(fn), ha_frac_copy_out(fn))

FracAdd ==
  FracReturns("frac_add", ha_frac_add(fn, fm), ha_frac_add_out(fn, fm))

FracSub ==
  FracReturns("frac_sub", ha_frac_sub(fn, fm), ha_frac_sub_out(fn, fm))

FracMult ==
  FracReturns("frac_mult", ha_frac_mult(fn, fm), ha_frac_mult_out(fn, fm))

FracDiv ==
  FracReturns("frac_div", ha_frac_div(fn, fm), ha_frac_div_out(fn, fm))

\* a call that returns an int: n_sub_m is the difference ha_frac_cmp works on
\* (read without a test: a missing difference ends the program); the
\* difference is destroyed before the return
FracDecides(name, n_sub_m, o) ==
  /\ s = <<>>
  /\ t = <<>>
  /\ ~aborted
  /\ op' = name
  /\ fret' = NULL
  /\ aborted' = (n_sub_m = ABORT \/ n_sub_m = NULL)
  /\ fcmp' = IF n_sub_m = ABORT \/ n_sub_m = NULL THEN 0
             ELSE ha_frac_cmp_sign(n_sub_m)
  /\ live' = 0
  /\ out' = o
  /\ s' = <<>>
  /\ t' = <<>>
  /\ UNCHANGED <<fn, fm>>
  /\ UNCHANGED intvars
  /\ UNCHANGED compvars
  /\ UNCHANGED memvars

\* an integer the client holds as an operand of the integer layer
IsOperand(x) == x # NULL /\ Abs(Val(x)) <= MaxAbs

\* get_gcd on the integers of the two literals the client has read, as
\* ha_frac_reduc and ha_frac_add call it on copies of numerators and
\* denominators; a failed assertion ends the program
GcdReturns(r) ==
  /\ op' = "get_gcd"
  /\ ret' = IF r = ABORT THEN NULL ELSE r
  /\ aborted' = (r = ABORT)
  /\ live' = IF r = ABORT THEN 0 ELSE 2
  /\ out' = <<>>
  /\ UNCHANGED <<n, m, flag, s, t, fn, fm, fret, fcmp>>
  /\ UNCHANGED compvars
  /\ UNCHANGED memvars

FracGcd ==
  /\ op = "init"
  /\ ~aborted
  /\ IsOperand(ha_int_create(s))
  /\ IsOperand(ha_int_create(t))
  /\ GcdReturns(get_gcd(ha_int_create(s), ha_int_create(t)))

\* a call of the integer layer on the integers x and y of the two literals
\* the client has read: r is what it returns, h the heap blocks live on
\* return, o what it wrote
LitCall(name, r, h, o) ==
  /\ op = "init"
  /\ ~aborted
  /\ IsOperand(ha_int_create(s))
  /\ IsOperand(ha_int_create(t))
  /\ op' = name
  /\ ret' = r
  /\ live' = h
  /\ out' = o
  /\ UNCHANGED <<n, m, flag, s, t, fn, fm, fret, fcmp, aborted>>
  /\ UNCHANGED compvars
  /\ UNCHANGED memvars

LitAdd ==
  LitCall("int_add", ha_int_add(ha_int_create(s), ha_int_create(t)), 2, <<>>)

LitSub ==
  LitCall("int_sub", ha_int_sub(ha_int_create(s), ha_int_create(t)), 2, <<>>)

LitMult ==
  LitCall("int_mult", ha_int_mult(ha_int_create(s), ha_int_create(t)), 2,
          <<>>)

LitQuotient ==
  LitCall("int_quotient",
          ha_int_quotient(ha_int_create(s), ha_int_create(t)),
          ha_int_quotient_heap(ha_int_create(s), ha_int_create(t)),
          IF is_zero(ha_int_create(t)) THEN DivisorZeroMsg ELSE <<>>)

LitRemainder ==
  LitCall("int_remainder",
          ha_int_remainder(ha_int_create(s), ha_int_create(t)),
          ha_int_remainder_heap(ha_int_create(s), ha_int_create(t)),
          IF is_zero(ha_int_create(t)) THEN DivisorZeroMsg ELSE <<>>)

\* ha_frac_print returns nothing and leaves nothing allocated
FracPrint ==
  /\ s = <<>>
  /\ t = <<>>
  /\ FracCall("frac_print", NULL, 0, ha_frac_print(fn))
  /\ s' = <<>>
  /\ t' = <<>>

FracCmp ==
  FracDecides("frac_cmp", ha_frac_sub(fn, fm), ha_frac_cmp_out(fn, fm))

\* the client keeps the returned fraction as its first operand
FracKeepN ==
  /\ ~aborted
  /\ fret # NULL
  /\ InFracBound(fret)
  /\ fn' = fret
  /\ op' = "keep"
  /\ fret' = NULL
  /\ live' = 0
  /\ out' = <<>>
  /\ s' = <<>>
  /\ t' = <<>>
  /\ fcmp' = 0
  /\ UNCHANGED <<fm, aborted>>
  /\ UNCHANGED intvars
  /\ UNCHANGED compvars
  /\ UNCHANGED memvars

\* the client keeps the returned fraction as its second operand
FracKeepM ==
  /\ ~aborted
  /\ fret # NULL
  /\ InFracBound(fret)
  /\ fm' = fret
  /\ op' = "keep"
  /\ fret' = NULL
  /\ live' = 0
  /\ out' = <<>>
  /\ s' = <<>>
  /\ t' = <<>>
  /\ fcmp' = 0
  /\ UNCHANGED <<fn, aborted>>
  /\ UNCHANGED intvars
  /\ UNCHANGED compvars
  /\ UNCHANGED memvars

NextFrac ==
  \/ FracCreate
  \/ FracCopy
  \/ FracAdd
  \/ FracSub
  \/ FracMult
  \/ FracDiv
  \/ FracCmp
  \/ FracPrint
  \/ FracGcd
  \/ LitAdd
  \/ LitSub
  \/ LitMult
  \/ LitQuotient
  \/ LitRemainder
  \/ FracKeepN
  \/ FracKeepM

SpecFrac == InitFrac /\ [][NextFrac]_vars

(* -------------------- the client of the complex layer ------------------ *)

\* largest numerator and denominator of the parts of a complex number that
\* the client keeps as a later operand
MaxCompNume == 1

MaxCompDenom == 2

\* the lines the client reads: the proper forms the parser documents, the
\* units, and two lines that are not numbers
CompInputs ==
  { <<Ch0>>,
    <<Ch1, Ch0 + 2>>,
    <<ChMinus, Ch1, Ch0 + 2, Ch0 + 3>>,
    <<Ch1, ChSlash, Ch0 + 2>>,
    <<ChMinus, Ch0 + 2, ChSlash, Ch0 + 3>>,
    <<Ch0 + 4, ChSlash, Ch0 + 2>>,
    <<ChI>>,
    <<ChMinus, Ch0 + 3, ChI>>,
    <<ChLParen, Ch0 + 2, ChSlash, Ch0 + 3, ChRParen, ChI>>,
    <<Ch0 + 2, ChPlus, Ch0 + 3, ChI>>,
    <<ChMinus, Ch1, ChSlash, Ch0 + 2, ChMinus, ChLParen, Ch0 + 3, ChSlash,
      Ch0 + 4, ChRParen, ChI>>,
    <<ChMinus, Ch0 + 3, ChPlus, ChLParen, Ch0 + 4, ChSlash, Ch0 + 5,
      ChRParen, ChI>>,
    <<Ch0 + 2, ChSlash, Ch0 + 3, ChMinus, Ch0 + 4, ChI>>,
    <<Ch1>>,
    <<ChMinus, ChI>>,
    <<Ch1, ChPlus, ChI>>,
    <<Ch1, ChSlash, Ch0>>,
    <<ChMinus>> }

InCompBound(c) ==
  /\ Mag(c.real.nume.digits) <= MaxCompNume
  /\ Mag(c.real.denom.digits) <= MaxCompDenom
  /\ Mag(c.ima.nume.digits) <= MaxCompNume
  /\ Mag(c.ima.denom.digits) <= MaxCompDenom

InitComp ==
  /\ n = ha_int_create(<<Ch0>>)
  /\ m = ha_int_create(<<Ch0>>)
  /\ ret = NULL
  /\ flag = FALSE
  /\ op = "init"
  /\ live = 0
  /\ out = <<>>
  /\ fn = ZeroFrac
  /\ fm = ZeroFrac
  /\ fret = NULL
  /\ aborted = FALSE
  /\ fcmp = 0
  /\ t = <<>>
  /\ cn = ZeroComp
  /\ cm = ZeroComp
  /\ cret = NULL
  /\ cread = NULL
  /\ MemIdle
  /\ s \in CompInputs

\* heap blocks of a returned complex number: the struct and two fractions
CompBlocks(r) == IF r = NULL \/ r = ABORT THEN 0 ELSE 11

\* a call of the complex arithmetic on the operands: r is what it returns
CompCall(name, r) ==
  /\ ~aborted
  /\ op \in {"keep", "comp_add", "comp_sub", "comp_mult", "comp_div"}
  /\ op' = name
  /\ cret' = IF r = ABORT THEN NULL ELSE r
  /\ aborted' = (r = ABORT)
  /\ live' = CompBlocks(r)
  /\ out' = <<>>
  /\ s' = <<>>
  /\ cread' = NULL
  /\ UNCHANGED <<cn, cm, t, fn, fm, fret, fcmp>>
  /\ UNCHANGED intvars
  /\ UNCHANGED memvars

CompAdd == CompCall("comp_add", ha_comp_add(cn, cm))

CompSub == CompCall("comp_sub", ha_comp_sub(cn, cm))

CompMult == CompCall("comp_mult", ha_comp_mult(cn, cm))

CompDiv == CompCall("comp_div", ha_comp_div(cn, cm))

\* the client turns the last result into text
CompToStr ==
  /\ ~aborted
  /\ op \in {"comp_add", "comp_sub", "comp_mult", "comp_div"}
  /\ cret # NULL
  /\ op' = "comp_to_str"
  /\ s' = ha_comp_to_str(cret)
  /\ live' = 1
  /\ out' = <<>>
  /\ UNCHANGED <<cn, cm, cret, cread, t, fn, fm, fret, fcmp, aborted>>
  /\ UNCHANGED intvars
  /\ UNCHANGED memvars

\* read_input on the line r the client holds: c is what it returns, o what
\* it wrote
ReadInputCall(c, o) ==
  /\ ~aborted
  /\ op \in {"init", "comp_to_str"}
  /\ op' = "read_input"
  /\ cread' = IF c = ABORT THEN NULL ELSE c
  /\ aborted' = (c = ABORT)
  /\ live' = CompBlocks(c)
  /\ out' = o
  /\ UNCHANGED <<cn, cm, cret, s, t, fn, fm, fret, fcmp>>
  /\ UNCHANGED intvars
  /\ UNCHANGED memvars

ReadInput == ReadInputCall(read_input(s), read_input_out(s))

\* the complex number the last call returned
Returned == IF op = "read_input" THEN cread ELSE cret

\* the client keeps the returned complex number as its first operand
CompKeepN ==
  /\ ~aborted
  /\ op \in {"read_input", "comp_add", "comp_sub", "comp_mult", "comp_div"}
  /\ Returned # NULL
  /\ InCompBound(Returned)
  /\ cn' = Returned
  /\ op' = "keep"
  /\ cret' = NULL
  /\ cread' = NULL
  /\ live' = 0
  /\ out' = <<>>
  /\ s' = <<>>
  /\ UNCHANGED <<cm, t, fn, fm, fret, fcmp, aborted>>
  /\ UNCHANGED intvars
  /\ UNCHANGED memvars

\* the client keeps the returned complex number as its second operand
CompKeepM ==
  /\ ~aborted
  /\ op \in {"read_input", "comp_add", "comp_sub", "comp_mult", "comp_div"}
  /\ Returned # NULL
  /\ InCompBound(Returned)
  /\ cm' = Returned
  /\ op' = "keep"
  /\ cret' = NULL
  /\ cread' = NULL
  /\ live' = 0
  /\ out' = <<>>
  /\ s' = <<>>
  /\ UNCHANGED <<cn, t, fn, fm, fret, fcmp, aborted>>
  /\ UNCHANGED intvars
  /\ UNCHANGED memvars

NextComp ==
  \/ ReadInput
  \/ CompAdd
  \/ CompSub
  \/ CompMult
  \/ CompDiv
  \/ CompToStr
  \/ CompKeepN
  \/ CompKeepM

SpecComp == InitComp /\ [][NextComp]_vars

(* ------------------- a client of one call's storage -------------------- *)
(* One call of one function with operands the caller owns; any statement   *)
(* of the body may be reached, a condition on values going either way.     *)

\* the statement the call stands at
Ins == Prog(fun)[pc]

At(kind) ==
  /\ fun # ""
  /\ pc # 0
  /\ fault = ""
  /\ Ins.k = kind

\* a statement that cannot be run: the call ends there
Fault(what) ==
  /\ fault' = what
  /\ UNCHANGED <<fun, pc, env, mem, brk, res>>

InitMem ==
  /\ n = ha_int_create(<<Ch0>>)
  /\ m = ha_int_create(<<Ch0>>)
  /\ ret = NULL
  /\ flag = FALSE
  /\ op = "init"
  /\ live = 0
  /\ out = <<>>
  /\ fn = ZeroFrac
  /\ fm = ZeroFrac
  /\ fret = NULL
  /\ aborted = FALSE
  /\ fcmp = 0
  /\ t = <<>>
  /\ cn = ZeroComp
  /\ cm = ZeroComp
  /\ cret = NULL
  /\ cread = NULL
  /\ s = <<>>
  /\ fun \in MemFuns
  /\ pc = 1
  /\ \E same \in BOOLEAN :
       /\ same => (Len(Params(fun)) = 2
                     /\ Params(fun)[1][2] = Params(fun)[2][2])
       /\ env = ArgEnv(Params(fun), same)
  /\ mem = ArgHeap(Params(fun))
  /\ brk = ArgBlocks(Params(fun))
  /\ res = 0
  /\ fault = ""

MemMalloc ==
  /\ At("malloc")
  /\ brk + 1 <= MaxBlocks
  /\ IF dst_ok(Ins.a)
     THEN /\ env' = store_env(Ins.a, brk + 1)
          /\ mem' = store_mem([mem EXCEPT ![brk + 1] = Block(Ins.b, FALSE)],
                              Ins.a, brk + 1)
          /\ brk' = brk + 1
          /\ pc' = pc + 1
          /\ UNCHANGED <<fun, res, fault>>
     ELSE Fault("store")
  /\ UNCHANGED valvars

MemCall ==
  /\ At("call")
  /\ brk + obj_size(Ins.b) <= MaxBlocks
  /\ IF (\A i \in DOMAIN Ins.c : obj_ok(Ins.c[i])) /\ dst_ok(Ins.a)
     THEN /\ env' = (IF Ins.b = "none" THEN env
                     ELSE store_env(Ins.a, brk + 1))
          /\ mem' = (IF Ins.b = "none" THEN mem
                     ELSE store_mem(alloc_obj(mem, brk, Ins.b, FALSE),
                                    Ins.a, brk + 1))
          /\ brk' = brk + obj_size(Ins.b)
          /\ pc' = pc + 1
          /\ UNCHANGED <<fun, res, fault>>
     ELSE Fault("call")
  /\ UNCHANGED valvars

MemRead ==
  /\ At("read")
  /\ IF \A i \in DOMAIN Ins.c : block_ok(Ins.c[i])
     THEN /\ pc' = pc + 1
          /\ UNCHANGED <<fun, env, mem, brk, res, fault>>
     ELSE Fault("read")
  /\ UNCHANGED valvars

MemWrite ==
  /\ At("write")
  /\ IF block_ok(Ins.a) /\ \A i \in DOMAIN Ins.c : block_ok(Ins.c[i])
     THEN /\ mem' = [mem EXCEPT ![addr(Ins.a)].w = TRUE]
          /\ pc' = pc + 1
          /\ UNCHANGED <<fun, env, brk, res, fault>>
     ELSE Fault("write")
  /\ UNCHANGED valvars

MemAssign ==
  /\ At("assign")
  /\ IF dst_ok(Ins.a) /\ (Ins.b = <<>> \/ ptr_ok(Ins.b))
     THEN /\ env' = store_env(Ins.a, IF Ins.b = <<>> THEN 0 ELSE addr(Ins.b))
          /\ mem' = store_mem(mem, Ins.a,
                              IF Ins.b = <<>> THEN 0 ELSE addr(Ins.b))
          /\ pc' = pc + 1
          /\ UNCHANGED <<fun, brk, res, fault>>
     ELSE Fault("assign")
  /\ UNCHANGED valvars

MemFree ==
  /\ At("free")
  /\ IF block_ok(Ins.a)
     THEN /\ mem' = free_blocks(mem, {addr(Ins.a)})
          /\ pc' = pc + 1
          /\ UNCHANGED <<fun, env, brk, res, fault>>
     ELSE Fault("free")
  /\ UNCHANGED valvars

MemDestroy ==
  /\ At("destroy")
  /\ IF obj_ok(Ins.a)
     THEN /\ mem' = free_blocks(mem, reach(mem, addr(Ins.a)))
          /\ pc' = pc + 1
          /\ UNCHANGED <<fun, env, brk, res, fault>>
     ELSE Fault("destroy")
  /\ UNCHANGED valvars

MemRealloc ==
  /\ At("realloc")
  /\ brk + 1 <= MaxBlocks
  /\ IF block_ok(Ins.a)
     THEN \E moved \in BOOLEAN :
            /\ env' = (IF moved THEN store_env(Ins.a, brk + 1) ELSE env)
            /\ mem' = (IF moved
                       THEN store_mem(
                              [free_blocks(mem, {addr(Ins.a)})
                                 EXCEPT ![brk + 1] =
                                   [Block("chars", FALSE) EXCEPT !.w = TRUE]],
                              Ins.a, brk + 1)
                       ELSE [mem EXCEPT ![addr(Ins.a)].w = TRUE])
            /\ brk' = (IF moved THEN brk + 1 ELSE brk)
            /\ pc' = pc + 1
            /\ UNCHANGED <<fun, res, fault>>
     ELSE Fault("realloc")
  /\ UNCHANGED valvars

MemBranch ==
  /\ At("br")
  /\ \E to \in Ins.a : pc' = to
  /\ UNCHANGED <<fun, env, mem, brk, res, fault>>
  /\ UNCHANGED valvars

MemReturn ==
  /\ At("ret")
  /\ IF Ins.a = <<>> \/ ptr_ok(Ins.a)
     THEN /\ res' = (IF Ins.a = <<>> THEN 0 ELSE addr(Ins.a))
          /\ pc' = 0
          /\ UNCHANGED <<fun, env, mem, brk, fault>>
     ELSE Fault("return")
  /\ UNCHANGED valvars

NextMem ==
  \/ MemMalloc
  \/ MemCall
  \/ MemRead
  \/ MemWrite
  \/ MemAssign
  \/ MemFree
  \/ MemDestroy
  \/ MemRealloc
  \/ MemBranch
  \/ MemReturn

SpecMem == InitMem /\ [][NextMem]_vars

(* ------------------ arithmetic reading of a fraction ------------------- *)

RECURSIVE Gcd(_, _)
Gcd(a, b) == IF b = 0 THEN a ELSE Gcd(b, a % b)

\* the signed numerator of the rational number a fraction stands for
Num(f) == IF f.nega THEN 0 - Mag(f.nume.digits) ELSE Mag(f.nume.digits)

Den(f) == Mag(f.denom.digits)

\* the representation invariant of struct ha_frac
FracCanonical(f) ==
  /\ f # NULL
  /\ f # ABORT
  /\ f.nega \in BOOLEAN
  /\ Canonical(f.nume)
  /\ Canonical(f.denom)
  /\ f.nume.sign
  /\ f.denom.sign
  /\ Den(f) >= 1
  /\ Gcd(Mag(f.nume.digits), Den(f)) = 1
  /\ (is_zero(f.nume) => ~f.nega /\ Den(f) = 1)

FracTypeOK ==
  /\ FracCanonical(fn)
  /\ FracCanonical(fm)
  /\ (fret # NULL => FracCanonical(fret))

TypeOK ==
  /\ Canonical(n)
  /\ Canonical(m)
  /\ ret # NULL => Canonical(ret)

(* =========================== the claims ================================ *)

ZeroInt == ha_int(TRUE, <<Ch0>>)

\* the value with the opposite sign; zero stays zero
Negate(x) == IF is_zero(x) THEN x ELSE ha_int(~x.sign, x.digits)

Reverse(str) == [i \in 1..Len(str) |-> str[Len(str) - i + 1]]

\* the digits of a literal: the string without its optional sign
Body(str) == IF Len(str) > 0 /\ str[1] = ChMinus THEN Tail(str) ELSE str

\* the grammar of integer literals: an optional '-', one or more digits, no
\* superfluous leading zero, no negative zero
ValidLiteral(str) ==
  /\ Len(Body(str)) >= 1
  /\ IsDigits(Body(str))
  /\ (Len(Body(str)) > 1 => Body(str)[1] # Ch0)
  /\ ~(str[1] = ChMinus /\ Body(str) = <<Ch0>>)

\* C1: every ha_int the client holds or receives from ha_int_add, ha_int_sub,
\* ha_int_mult, ha_int_quotient or ha_int_remainder (non-zero divisor) is
\* canonical: at least one digit, every digit '0'..'9', no redundant
\* most-significant zero, and zero is never negative.
C1_Canonical ==
  /\ Canonical(n)
  /\ Canonical(m)
  /\ (op \in {"add", "sub", "mult"} => Canonical(ret))
  /\ (op \in {"quotient", "remainder"} /\ ~is_zero(m) => Canonical(ret))

\* C1 witness: two kept two-digit results of opposite sign were added to zero
C1_Witness ==
  /\ op = "add"
  /\ n.sign # m.sign
  /\ Len(n.digits) = 2
  /\ Len(m.digits) = 2
  /\ ret = ZeroInt

\* C2: ha_int_create(s) succeeds exactly on the literals of the grammar; a
\* failure returns NULL and leaves nothing allocated; a success stores the
\* digits least-significant first with sign false only for a leading '-'.
C2_Create ==
  op = "create" =>
    /\ (ret # NULL) = ValidLiteral(s)
    /\ (ret = NULL => live = 0)
    /\ (ret # NULL => /\ ret.digits = Reverse(Body(s))
                      /\ ret.sign = (s[1] # ChMinus))

\* C2 witness: the negative zero "-0" was rejected
C2_Witness == op = "create" /\ s = <<ChMinus, Ch0>> /\ ret = NULL

\* C3: ha_int_to_str of a created value is the string it was created from,
\* and ha_int_create of the string of any value the client holds or
\* received succeeds and gives a value equal to it under ha_int_eq.
C3_RoundTrip ==
  /\ (op = "create" /\ ret # NULL => ha_int_to_str(ret) = s)
  /\ (op = "to_str" => /\ ha_int_create(s) # NULL
                       /\ ha_int_eq(ha_int_create(s), n))
  /\ \A v \in {n, m, ret} \ {NULL} :
        /\ ha_int_create(ha_int_to_str(v)) # NULL
        /\ ha_int_eq(ha_int_create(ha_int_to_str(v)), v)

\* C3 witness: a negative two-digit result of arithmetic was converted
C3_Witness ==
  /\ op = "to_str"
  /\ Val(n) = 0 - 25
  /\ s = <<ChMinus, Ch0 + 2, Ch0 + 5>>

\* C4: ha_int_add(n, m) is the exact sum: equal signs add the magnitudes and
\* keep the sign, different signs give the difference of the magnitudes with
\* the sign of the operand of larger magnitude, and equal magnitudes of
\* opposite sign give canonical zero.
C4_Add ==
  op = "add" =>
    /\ Canonical(ret)
    /\ Val(ret) = Val(n) + Val(m)
    /\ (n.sign = m.sign =>
          ret.sign = n.sign /\ Mag(ret.digits) = Mag(n.digits) + Mag(m.digits))
    /\ (n.sign # m.sign /\ Mag(n.digits) > Mag(m.digits) =>
          ret.sign = n.sign /\ Mag(ret.digits) = Mag(n.digits) - Mag(m.digits))
    /\ (n.sign # m.sign /\ Mag(n.digits) < Mag(m.digits) =>
          ret.sign = m.sign /\ Mag(ret.digits) = Mag(m.digits) - Mag(n.digits))
    /\ (n.sign # m.sign /\ Mag(n.digits) = Mag(m.digits) => ret = ZeroInt)

\* C4 witness: a one-digit positive plus a two-digit negative, with a borrow
C4_Witness ==
  /\ op = "add"
  /\ Val(n) = 5
  /\ Val(m) = 0 - 12
  /\ Val(ret) = 0 - 7

\* C5: ha_int_sub(n, m) equals ha_int_add(n, -m); n - n is canonical zero,
\* 0 - m is -m, and n - 0 is n.
C5_Sub ==
  op = "sub" =>
    /\ ha_int_eq(ret, ha_int_add(n, Negate(m)))
    /\ (ha_int_eq(n, m) => ret = ZeroInt)
    /\ (is_zero(n) => ret = Negate(m))
    /\ (is_zero(m) => ret = n)

\* C5 witness: zero was subtracted from a negative value
C5_Witness == op = "sub" /\ ~n.sign /\ is_zero(m) /\ ret = n

\* C6: ha_int_mult(n, m) is the exact product; its sign is non-negative if
\* an operand is zero or the signs agree, and negative otherwise.
C6_Mult ==
  op = "mult" =>
    /\ Canonical(ret)
    /\ Val(ret) = Val(n) * Val(m)
    /\ ret.sign = (is_zero(n) \/ is_zero(m) \/ n.sign = m.sign)

\* C6 witness: 12 * 34 = 408
C6_Witness ==
  /\ op = "mult"
  /\ Val(n) = 12
  /\ Val(m) = 34
  /\ ret = ha_int(TRUE, <<Ch0 + 8, Ch0, Ch0 + 4>>)

\* C7: for a non-zero divisor the quotient is truncated toward zero: its
\* magnitude is floor(|n| / |m|), it is canonical zero when |n| < |m|, and
\* otherwise its sign follows the multiplication rule; the remainder is zero
\* or has the sign of n, and its magnitude is less than |m|.
C7_Quotient ==
  /\ (op = "quotient" /\ ~is_zero(m) =>
        /\ Canonical(ret)
        /\ Mag(ret.digits) = Mag(n.digits) \div Mag(m.digits)
        /\ (Mag(n.digits) < Mag(m.digits) => ret = ZeroInt)
        /\ (Mag(n.digits) >= Mag(m.digits) => ret.sign = (n.sign = m.sign)))
  /\ (op = "remainder" /\ ~is_zero(m) =>
        /\ Canonical(ret)
        /\ (is_zero(ret) \/ ret.sign = n.sign)
        /\ Mag(ret.digits) < Mag(m.digits))

\* C7 witness: -7 divided by 2 gave -3
C7_Witness ==
  /\ op = "quotient"
  /\ Val(n) = 0 - 7
  /\ Val(m) = 2
  /\ Val(ret) = 0 - 3

\* C8: division identity: n equals m * quotient(n, m) + remainder(n, m).
C8_DivisionIdentity ==
  op = "remainder" /\ ~is_zero(m) =>
    ha_int_eq(n, ha_int_add(ha_int_mult(m, ha_int_quotient(n, m)), ret))

\* C8 witness: the remainder of -7 by 2 is -1
C8_Witness ==
  /\ op = "remainder"
  /\ Val(n) = 0 - 7
  /\ Val(m) = 2
  /\ Val(ret) = 0 - 1

\* C9: a call of ha_int_quotient or ha_int_remainder with a zero divisor
\* returns NULL, leaves no allocation live and leaves both operands as they
\* were.
C9_DivideByZero ==
  [][op' \in {"quotient", "remainder"} /\ is_zero(m) =>
       /\ ret' = NULL
       /\ live' = 0
       /\ n' = n
       /\ m' = m]_vars

\* C9 witness: a non-zero value was divided by zero
C9_Witness == op = "quotient" /\ is_zero(m) /\ ~is_zero(n) /\ ret = NULL

\* C10: ha_int_gt and ha_int_eq are the order and the equality of the
\* integers, and gt(n, m) = (~gt(m, n) /\ ~eq(n, m)) for every pair.
C10_Order ==
  /\ (op = "gt" => flag = (Val(n) > Val(m)))
  /\ (op = "eq" => flag = (Val(n) = Val(m)))
  /\ ha_int_gt(n, m) = (~ha_int_gt(m, n) /\ ~ha_int_eq(n, m))
  /\ ha_int_gt(m, n) = (~ha_int_gt(n, m) /\ ~ha_int_eq(m, n))

\* C10 witness: of two negative values the one of larger magnitude is not
\* the greater
C10_Witness ==
  /\ op = "gt"
  /\ ~n.sign
  /\ ~m.sign
  /\ Mag(n.digits) > Mag(m.digits)
  /\ flag = FALSE

(* ==================== the claims of the fraction layer ================= *)

\* the integer a valid literal denotes
LitVal(str) ==
  IF str[1] = ChMinus THEN 0 - Mag(Reverse(Body(str)))
  ELSE Mag(Reverse(Body(str)))

\* the numerator with the sign of the fraction
SignedNume(f) ==
  IF f.nega THEN ha_int(FALSE, f.nume.digits) ELSE f.nume

\* the fraction with the opposite sign; zero stays zero
FracNegate(f) ==
  IF is_zero(f.nume) THEN f ELSE ha_frac(~f.nega, f.nume, f.denom)

\* the reciprocal of a non-zero fraction
Reciprocal(f) == ha_frac(f.nega, f.denom, f.nume)

\* the integers the client can create, up to the bound of the integer layer
IntPool ==
  {ha_int_create(a) :
     a \in {str \in FracLits : ValidLiteral(str) /\ Abs(LitVal(str)) <= MaxAbs}}

\* the canonical fractions within the client's bounds
FracPool ==
  {f \in [nega : BOOLEAN, nume : IntPool, denom : IntPool] :
     FracCanonical(f) /\ InFracBound(f)}

\* the integers that occur in a fraction
IntsOf(f) == {SignedNume(f), f.denom}

\* C11: addition and multiplication of ha_int and of ha_frac commute and
\* associate; results are compared in canonical form (same sign and digits,
\* same nega, numerator and denominator).
C11_Laws ==
  /\ (op \in {"frac_add", "frac_mult"} =>
        \A a \in IntsOf(fn) : \A b \in IntsOf(fm) : \A c \in IntPool :
          /\ ha_int_add(a, b) = ha_int_add(b, a)
          /\ ha_int_mult(a, b) = ha_int_mult(b, a)
          /\ ha_int_add(ha_int_add(a, b), c) = ha_int_add(a, ha_int_add(b, c))
          /\ ha_int_mult(ha_int_mult(a, b), c)
               = ha_int_mult(a, ha_int_mult(b, c)))
  /\ (op = "frac_add" =>
        /\ fret = ha_frac_add(fm, fn)
        /\ \A c \in FracPool :
             ha_frac_add(fret, c) = ha_frac_add(fn, ha_frac_add(fm, c)))
  /\ (op = "frac_mult" =>
        /\ fret = ha_frac_mult(fm, fn)
        /\ \A c \in FracPool :
             ha_frac_mult(fret, c) = ha_frac_mult(fn, ha_frac_mult(fm, c)))

\* C11 witness: 1/2 and -2/3 were added
C11_Witness ==
  /\ op = "frac_add"
  /\ Num(fn) = 1 /\ Den(fn) = 2
  /\ Num(fm) = 0 - 2 /\ Den(fm) = 3
  /\ Num(fret) = 0 - 1 /\ Den(fret) = 6

\* C12: every fraction the client holds, and every fraction returned by
\* ha_frac_create, ha_frac_copy, ha_frac_add, ha_frac_sub, ha_frac_mult and
\* ha_frac_div (non-zero divisor) is canonical: numerator and denominator
\* coprime and stored non-negative, denominator at least 1, and zero is
\* (false, 0, 1); these calls return a fraction.
C12_FracCanonical ==
  /\ FracCanonical(fn)
  /\ FracCanonical(fm)
  /\ (op = "frac_create" /\ fret # NULL => FracCanonical(fret))
  /\ (op \in {"frac_copy", "frac_add", "frac_sub", "frac_mult"} =>
        ~aborted /\ FracCanonical(fret))
  /\ (op = "frac_div" /\ ~is_zero(fm.nume) => ~aborted /\ FracCanonical(fret))

\* C12 witness: 1/2 * 2/3 was reduced from 2/6 to 1/3
C12_Witness ==
  /\ op = "frac_mult"
  /\ Num(fn) = 1 /\ Den(fn) = 2
  /\ Num(fm) = 2 /\ Den(fm) = 3
  /\ Num(fret) = 1 /\ Den(fret) = 3

\* C13: for a valid literal a and a valid non-zero literal b,
\* ha_frac_create(a, b) is a/b in lowest terms: nume = |a| / gcd, denom =
\* |b| / gcd, nega iff a # 0 and exactly one of a, b is negative, and a = 0
\* gives (false, 0, 1).
C13_FracCreate ==
  op = "frac_create" /\ ValidLiteral(s) /\ ValidLiteral(t) /\ LitVal(t) # 0 =>
    /\ ~aborted
    /\ FracCanonical(fret)
    /\ LET g == Gcd(Abs(LitVal(s)), Abs(LitVal(t)))
       IN /\ Mag(fret.nume.digits) = Abs(LitVal(s)) \div g
          /\ Mag(fret.denom.digits) = Abs(LitVal(t)) \div g
    /\ fret.nega = (LitVal(s) # 0 /\ ((LitVal(s) < 0) # (LitVal(t) < 0)))
    /\ (LitVal(s) = 0 => fret = ZeroFrac)

\* C13 witness: 12/30 gives 2/5
C13_Witness ==
  /\ op = "frac_create"
  /\ s = <<Ch1, Ch0 + 2>>
  /\ t = <<Ch0 + 3, Ch0>>
  /\ ~fret.nega
  /\ Mag(fret.nume.digits) = 2
  /\ Mag(fret.denom.digits) = 5

\* C14: ha_frac_create(a, "0") with a valid a returns NULL, ends no program,
\* and leaves neither parsed integer allocated.
C14_ZeroDenominator ==
  op = "frac_create" /\ ValidLiteral(s) /\ t = <<Ch0>> =>
    /\ fret = NULL
    /\ ~aborted
    /\ live = 0

\* C14 witness: -1/0 was rejected
C14_Witness ==
  /\ op = "frac_create"
  /\ s = <<ChMinus, Ch1>>
  /\ t = <<Ch0>>
  /\ fret = NULL
  /\ ~aborted

\* C15: ha_frac_create with a malformed numerator or denominator returns
\* NULL and no assertion fails.
C15_MalformedOperand ==
  op = "frac_create" /\ (~ValidLiteral(s) \/ ~ValidLiteral(t)) =>
    fret = NULL /\ ~aborted

\* C16: ha_frac_add(n, m) is the canonical fraction of the exact sum, for
\* equal and for different denominators and every combination of signs.
C16_FracAdd ==
  op = "frac_add" =>
    /\ ~aborted
    /\ FracCanonical(fret)
    /\ Num(fret) * (Den(fn) * Den(fm))
         = (Num(fn) * Den(fm) + Num(fm) * Den(fn)) * Den(fret)
    /\ (fm = FracNegate(fn) => fret = ZeroFrac)

\* C16 witness: 1/2 + 1/3 = 5/6
C16_Witness ==
  /\ op = "frac_add"
  /\ Num(fn) = 1 /\ Den(fn) = 2
  /\ Num(fm) = 1 /\ Den(fm) = 3
  /\ Num(fret) = 5 /\ Den(fret) = 6

\* C17: ha_frac_sub(n, m) equals ha_frac_add(n, -m) and is the canonical
\* fraction of n - m; n - 0 is n and n - n is canonical zero.
C17_FracSub ==
  op = "frac_sub" =>
    /\ ~aborted
    /\ FracCanonical(fret)
    /\ fret = ha_frac_add(fn, FracNegate(fm))
    /\ Num(fret) * (Den(fn) * Den(fm))
         = (Num(fn) * Den(fm) - Num(fm) * Den(fn)) * Den(fret)
    /\ (is_zero(fm.nume) => fret = fn)
    /\ (fn = fm => fret = ZeroFrac)

\* C17 witness: zero was subtracted from a negative fraction
C17_Witness ==
  /\ op = "frac_sub"
  /\ fn.nega
  /\ Den(fn) = 3
  /\ fm = ZeroFrac
  /\ fret = fn

\* C18: ha_frac_mult(n, m) is the canonical reduction of the product of the
\* numerators over the product of the denominators; nega iff the nega flags
\* differ and neither numerator is zero.
C18_FracMult ==
  op = "frac_mult" =>
    /\ ~aborted
    /\ FracCanonical(fret)
    /\ Mag(fret.nume.digits) * (Den(fn) * Den(fm))
         = (Mag(fn.nume.digits) * Mag(fm.nume.digits)) * Den(fret)
    /\ fret.nega = (fn.nega # fm.nega /\ ~is_zero(fn.nume) /\ ~is_zero(fm.nume))

\* C18 witness: -2/3 * 1/2 = -1/3
C18_Witness ==
  /\ op = "frac_mult"
  /\ Num(fn) = 0 - 2 /\ Den(fn) = 3
  /\ Num(fm) = 1 /\ Den(fm) = 2
  /\ Num(fret) = 0 - 1 /\ Den(fret) = 3

\* C19: ha_frac_div(n, m) with m zero reports the failure by its return
\* value (NULL) and does not end the program.
C19_FracDivByZero ==
  op = "frac_div" /\ is_zero(fm.nume) => fret = NULL /\ ~aborted

\* C20: for a non-zero m, ha_frac_div(n, m) equals ha_frac_mult(n, 1/m), is
\* the canonical fraction of n / m, and multiplied by m gives n again.
C20_FracDiv ==
  op = "frac_div" /\ ~is_zero(fm.nume) =>
    /\ ~aborted
    /\ FracCanonical(fret)
    /\ fret = ha_frac_mult(fn, Reciprocal(fm))
    /\ Num(fret) * (Den(fn) * Num(fm)) = (Num(fn) * Den(fm)) * Den(fret)
    /\ ha_frac_mult(fret, fm) = fn

\* C20 witness: 1/2 divided by -2/3 is -3/4
C20_Witness ==
  /\ op = "frac_div"
  /\ Num(fn) = 1 /\ Den(fn) = 2
  /\ Num(fm) = 0 - 2 /\ Den(fm) = 3
  /\ Num(fret) = 0 - 3 /\ Den(fret) = 4

\* the sign of an integer as an int
Sgn(k) == IF k > 0 THEN 1 ELSE IF k < 0 THEN -1 ELSE 0

\* C21: for the canonical operands the client holds, ha_frac_cmp(n, m)
\* returns 1, 0 or -1 as the rational n is greater than, equal to or less
\* than m; exchanging the operands negates the result, and a value compared
\* with itself gives 0.
C21_FracCmp ==
  op = "frac_cmp" =>
    /\ ~aborted
    /\ fcmp = Sgn(Num(fn) * Den(fm) - Num(fm) * Den(fn))
    /\ ha_frac_cmp(fm, fn) = 0 - fcmp
    /\ ha_frac_cmp(fn, fn) = 0
    /\ ha_frac_cmp(fm, fm) = 0

\* C21 witness: -1/3 was compared with -2/3 and found greater
C21_Witness ==
  /\ op = "frac_cmp"
  /\ Num(fn) = 0 - 1
  /\ Den(fn) = 3
  /\ Num(fm) = 0 - 2
  /\ Den(fm) = 3
  /\ fcmp = 1

\* C22: reduction is idempotent: for every fraction f the client holds or
\* received, ha_frac_create of the strings of f's numerator and denominator
\* returns a fraction with the same numerator and denominator as f; and
\* ha_frac_copy(f) equals f in nega, nume and denom.
C22_Idempotent ==
  /\ \A f \in {fn, fm, fret} \ {NULL} :
        LET r == ha_frac_create(ha_int_to_str(f.nume), ha_int_to_str(f.denom))
        IN /\ r # NULL
           /\ r # ABORT
           /\ r.nume = f.nume
           /\ r.denom = f.denom
  /\ (op = "frac_copy" =>
        /\ ~aborted
        /\ fret.nega = fn.nega
        /\ fret.nume = fn.nume
        /\ fret.denom = fn.denom)

\* C22 witness: the negative fraction -2/3 was copied
C22_Witness ==
  /\ op = "frac_copy"
  /\ fn.nega
  /\ Num(fn) = 0 - 2
  /\ Den(fn) = 3
  /\ fret = fn

\* the characters a sequence of writes puts on standard output
RECURSIVE Printed(_)
Printed(o) ==
  IF o = <<>> THEN <<>>
  ELSE (IF Head(o).text = "-" THEN <<ChMinus>>
        ELSE IF Head(o).text = "/" THEN <<ChSlash>>
        ELSE Head(o).arg) \o Printed(Tail(o))

\* the positions of '/' in a string
Slashes(str) == {i \in 1..Len(str) : str[i] = ChSlash}

\* the part of a printed fraction before the '/': the numerator with its sign
PrintedNume(str) ==
  IF Slashes(str) = {} THEN str
  ELSE SubSeq(str, 1, (CHOOSE i \in Slashes(str) : TRUE) - 1)

\* the part after the '/'; an integer is printed without a denominator, which
\* is then 1
PrintedDenom(str) ==
  IF Slashes(str) = {} THEN <<Ch1>>
  ELSE SubSeq(str, (CHOOSE i \in Slashes(str) : TRUE) + 1, Len(str))

\* C23: ha_frac_print(f) writes '-' exactly when f.nega, then the digits of
\* the numerator, then '/' and the digits of the denominator exactly when
\* ha_frac_is_frac(f), that is when the denominator is not 1; and
\* ha_frac_create of the printed numerator (with its sign) and denominator
\* yields f.
C23_FracPrint ==
  op = "frac_print" =>
    /\ (Printed(out)[1] = ChMinus) = fn.nega
    /\ Printed(out) =
         (IF fn.nega THEN <<ChMinus>> ELSE <<>>)
         \o Reverse(fn.nume.digits)
         \o (IF Den(fn) # 1 THEN <<ChSlash>> \o Reverse(fn.denom.digits)
             ELSE <<>>)
    /\ (Slashes(Printed(out)) # {}) = ha_frac_is_frac(fn)
    /\ ha_frac_is_frac(fn) = (Den(fn) # 1)
    /\ Cardinality(Slashes(Printed(out))) <= 1
    /\ ha_frac_create(PrintedNume(Printed(out)), PrintedDenom(Printed(out)))
         = fn

\* C23 witness: -2/3 was printed as "-2/3"
C23_Witness ==
  /\ op = "frac_print"
  /\ Printed(out) = <<ChMinus, Ch0 + 2, ChSlash, Ch0 + 3>>

\* C28: get_gcd on two strictly positive canonical integers terminates and
\* returns their greatest common divisor as a positive canonical integer, in
\* particular gcd(a, a) = a and gcd(1, n) = 1; no assertion of get_gcd fails
\* on such a call, nor in ha_frac_create on valid literals or in the
\* arithmetic on the canonical fractions the client holds.
C28_GetGcd ==
  /\ (op = "get_gcd" /\ LitVal(s) > 0 /\ LitVal(t) > 0 =>
        /\ ~aborted
        /\ Canonical(ret)
        /\ ret.sign
        /\ Val(ret) = Gcd(LitVal(s), LitVal(t))
        /\ (s = t => ret = ha_int_create(s))
        /\ (s = <<Ch1>> => ret = ha_int_create(<<Ch1>>)))
  /\ (op = "frac_create" /\ ValidLiteral(s) /\ ValidLiteral(t) => ~aborted)
  /\ (op \in {"frac_add", "frac_sub", "frac_mult", "frac_copy", "frac_cmp"}
        => ~aborted)

\* C28 witness: get_gcd(12, 30) returned 6 after two recursive calls
C28_Witness ==
  /\ op = "get_gcd"
  /\ s = <<Ch1, Ch0 + 2>>
  /\ t = <<Ch0 + 3, Ch0>>
  /\ Val(ret) = 6

\* the for loop of ha_int_quotient(x, y) from its first iteration
QuotientSteps(x, y) ==
  quot_steps(x, y, Len(y.digits), 0, Len(x.digits),
             ha_int(TRUE, ha_int_copy(x).digits))

\* what the claim says of the iterations st of the for loop, for a result
\* buffer of cap digits
StepsInside(st, cap) ==
  \A k \in 1..Len(st) :
    /\ st[k].quotient \in 0..9
    /\ Canonical(st[k].dividend)
    /\ st[k].dividend.sign
    /\ Mag(st[k].dividend.digits) < Mag(st[k].modified_divisor.digits)
    /\ st[k].idx = k - 1
    /\ st[k].idx < cap

\* C29: in ha_int_quotient(n, m) with m non-zero, at every digit position
\* the subtraction loop ends after 0 to 9 subtractions, the running dividend
\* it leaves is a non-negative integer strictly smaller than the scaled
\* divisor, and the index written lies inside the digits allocated for the
\* result, also when |n| < |m| and the buffer holds a single digit.
C29_QuotientLoop ==
  op = "quotient" /\ ~is_zero(m) =>
    /\ StepsInside(QuotientSteps(n, m), quotient_run(n, m).cap)
    /\ quotient_run(n, m).idx = Len(QuotientSteps(n, m))
    /\ quotient_run(n, m).idx <= quotient_run(n, m).cap
    /\ (abs_gt(m, n) => quotient_run(n, m).cap = 1)

\* C29 witness: 12 / 34, two digits each and |n| < |m|: one iteration wrote
\* the single digit of the buffer
C29_Witness ==
  /\ op = "quotient"
  /\ Val(n) = 12
  /\ Val(m) = 0 - 34
  /\ quotient_run(n, m).cap = 1
  /\ quotient_run(n, m).idx = 1
  /\ ret = ZeroInt

\* the operations the claim calls the core value operations
CoreOps ==
  {"frac_create", "frac_add", "frac_sub", "frac_mult", "frac_div", "frac_cmp",
   "int_add", "int_sub", "int_mult", "int_quotient", "int_remainder"}

\* C27 as stated: the core operations of the integer and fraction layers
\* write nothing on any path, successful or failing.
C27_NoOutput == op \in CoreOps => out = <<>>

\* C27 amended: the core operations write nothing when they succeed, and
\* the arithmetic on fractions writes nothing at all; a failing call writes
\* an error message: ha_int_create (here called by ha_frac_create) one for
\* each malformed literal, ha_frac_create one more for a malformed literal
\* or a zero denominator, ha_int_quotient and ha_int_remainder one for a
\* zero divisor.
C27_OutputOnFailure ==
  /\ (op = "frac_create" =>
        out = (IF ~ValidLiteral(s)
               THEN <<[text |-> "invalid integer", arg |-> s]>> ELSE <<>>)
              \o (IF ~ValidLiteral(t)
                  THEN <<[text |-> "invalid integer", arg |-> t]>> ELSE <<>>)
              \o (IF ~ValidLiteral(s) \/ ~ValidLiteral(t) \/ LitVal(t) = 0
                  THEN <<[text |-> "invalid fraction", arg |-> <<s, t>>]>>
                  ELSE <<>>))
  /\ (op = "frac_create" => ((out = <<>>) = (fret # NULL)))
  /\ (op \in {"frac_add", "frac_sub", "frac_mult", "frac_div", "frac_cmp"}
        => out = <<>>)
  /\ (op \in {"int_add", "int_sub", "int_mult"} => out = <<>>)
  /\ (op \in {"int_quotient", "int_remainder"} =>
        /\ out = (IF LitVal(t) = 0
                  THEN <<[text |-> "divisor cannot be zero", arg |-> <<>>]>>
                  ELSE <<>>)
        /\ ((out = <<>>) = (ret # NULL)))

\* C27 witness: ha_frac_create("1", "0") wrote the message of the invalid
\* fraction and nothing else
C27_Witness ==
  /\ op = "frac_create"
  /\ s = <<Ch1>>
  /\ t = <<Ch0>>
  /\ fret = NULL
  /\ Len(out) = 1

\* C25: allocation hygiene: every call of the fraction layer, the failure
\* returns of ha_frac_create included, returns, and on return exactly the
\* blocks of the returned value are live.
C25_AllocationHygiene ==
  op \in {"frac_create", "frac_copy", "frac_add", "frac_sub", "frac_mult",
          "frac_cmp", "frac_print"} =>
    /\ ~aborted
    /\ live = FracBlocks(fret)

(* ------------------- arithmetic reading of a complex ------------------- *)

\* the rational number a fraction stands for, as <<numerator, denominator>>
Rat(f) == <<Num(f), Den(f)>>

RatAdd(p, q) == <<p[1] * q[2] + q[1] * p[2], p[2] * q[2]>>

RatSub(p, q) == <<p[1] * q[2] - q[1] * p[2], p[2] * q[2]>>

RatMul(p, q) == <<p[1] * q[1], p[2] * q[2]>>

RatEq(p, q) == p[1] * q[2] = q[1] * p[2]

\* the complex number q times the complex number y is the complex number x
IsQuotient(q, x, y) ==
  /\ RatEq(RatSub(RatMul(Rat(q.real), Rat(y.real)),
                  RatMul(Rat(q.ima), Rat(y.ima))), Rat(x.real))
  /\ RatEq(RatAdd(RatMul(Rat(q.real), Rat(y.ima)),
                  RatMul(Rat(q.ima), Rat(y.real))), Rat(x.ima))

SameParts(a, b) ==
  /\ a # ABORT
  /\ a # NULL
  /\ a.real = b.real
  /\ a.ima = b.ima

CompCanonical(c) ==
  /\ c # NULL
  /\ FracCanonical(c.real)
  /\ FracCanonical(c.ima)

CompTypeOK ==
  /\ CompCanonical(cn)
  /\ CompCanonical(cm)
  /\ (cret # NULL => CompCanonical(cret))
  /\ (cread # NULL => CompCanonical(cread))

\* C26: for the complex operands the client holds, with a divisor that is
\* not zero, ha_comp_div returns (no inner ha_frac_div meets a zero divisor
\* and ends the program) the exact quotient: both parts are canonical
\* fractions, the result times the divisor is the dividend in exact rational
\* arithmetic, and ha_comp_mult of the result and the divisor has the parts of
\* the dividend.
C26_CompDiv ==
  (op = "comp_div" /\ ~(Num(cm.real) = 0 /\ Num(cm.ima) = 0)) =>
    /\ ~aborted
    /\ CompCanonical(cret)
    /\ IsQuotient(cret, cn, cm)
    /\ SameParts(ha_comp_mult(cret, cm), cn)

\* C26 witness: a division by a divisor with both parts non-zero whose
\* result has a real part that is not an integer and a non-zero imaginary
\* part
C26_Witness ==
  /\ op = "comp_div"
  /\ ~aborted
  /\ cret # NULL
  /\ Num(cm.real) # 0
  /\ Num(cm.ima) # 0
  /\ Den(cret.real) > 1
  /\ Num(cret.ima) # 0

\* the text of the imaginary term of c without its sign: the coefficient in
\* parentheses when it is not an integer, no coefficient when it is 1
ImaTerm(c) ==
  (IF Den(c.ima) # 1
   THEN <<ChLParen>> \o ha_int_to_str(c.ima.nume) \o <<ChSlash>>
        \o ha_int_to_str(c.ima.denom) \o <<ChRParen>>
   ELSE IF Mag(c.ima.nume.digits) = 1 THEN <<>>
   ELSE ha_int_to_str(c.ima.nume))
  \o <<ChI>>

\* the text of a complex number: the real part alone when the imaginary part
\* is zero, the imaginary term alone when the real part is zero, else a '+'
\* or '-' between the parts
FormatOf(c) ==
  IF Num(c.ima) = 0 THEN ha_frac_to_str(c.real)
  ELSE IF Num(c.real) = 0
  THEN (IF c.ima.nega THEN <<ChMinus>> ELSE <<>>) \o ImaTerm(c)
  ELSE ha_frac_to_str(c.real)
       \o (IF c.ima.nega THEN <<ChMinus>> ELSE <<ChPlus>>) \o ImaTerm(c)

\* C30: when the client reads back with read_input the text ha_comp_to_str
\* made of a result c with canonical parts, the text has the documented
\* format, the four strings read_input splits it into are integer literals,
\* and the value ha_comp_create builds from them has the real and imaginary
\* parts of c.
C30_RoundTrip ==
  (op = "read_input" /\ cret # NULL /\ CompCanonical(cret)) =>
    /\ s = FormatOf(cret)
    /\ ValidLiteral(numerator(real(s)))
    /\ ValidLiteral(denominator(real(s)))
    /\ ValidLiteral(numerator(imaginary(s)))
    /\ ValidLiteral(denominator(imaginary(s)))
    /\ ~aborted
    /\ out = <<>>
    /\ SameParts(cread, cret)

\* C30 witness: a value with a non-zero real part and a negative imaginary
\* part that is not an integer has been written and read back
C30_Witness ==
  /\ op = "read_input"
  /\ cret # NULL
  /\ cread = cret
  /\ Num(cret.real) # 0
  /\ cret.ima.nega
  /\ Den(cret.ima) > 1

(* -------------------------------- C24 ---------------------------------- *)

\* the blocks of the operands of the call
ArgStorage == {b \in Blocks : mem[b].arg}

\* the blocks of the object the call returned
ResStorage == reach(mem, res)

\* C24: at every statement of ha_int_add, ha_int_sub, ha_int_mult,
\* ha_int_quotient, ha_int_remainder, ha_int_eq, ha_int_gt, ha_int_to_str,
\* ha_frac_add, ha_frac_sub, ha_frac_mult, ha_frac_div, ha_frac_cmp and
\* ha_frac_copy, and of the functions they call, no block of an operand has
\* been written or freed and no statement read or freed storage that is not
\* live; the object returned consists of live blocks none of which is a
\* block of an operand, also when both parameters are the same object
C24_NoMutation ==
  /\ fault = ""
  /\ \A b \in ArgStorage : mem[b].live /\ ~mem[b].w
  /\ (pc = 0 /\ res # 0) =>
       \A b \in ResStorage : mem[b].live /\ ~mem[b].arg

\* C24 witness: ha_frac_sub(n, n) returned a fraction of five blocks while
\* the copy it negated is freed
C24_Witness ==
  /\ fun = "ha_frac_sub"
  /\ env["n"] = env["m"]
  /\ pc = 0
  /\ res # 0
  /\ Cardinality(ResStorage) = 5
  /\ ~mem[env["m_cpy"]].live

====
